---- MODULE Spec2Model ----
(***************************************************************************)
(* Model of the oracle-driven workflows of finbrAIn:                       *)
(*   - EvaluatorOptimizerWorkflow (workflows/evaluator_optimizer.py):      *)
(*     process_with_evaluation and batch_process,                          *)
(*   - RoutingWorkflow (workflows/routing.py): route_content,              *)
(*     process_content and process_multiple_content.                       *)
(* The oracle (the LLM behind ChatOpenAI.ainvoke) is the environment: each *)
(* call is in flight between two steps of the calling coroutine and either *)
(* returns one of a fixed set of texts or fails.  Texts are token          *)
(* sequences, json.loads is a recogniser over the tokens, Python dicts are *)
(* functions from key strings to values, and dict objects live on a heap   *)
(* so that two names for one object can be told from two equal objects.    *)
(* Timestamps (datetime.now()) and console output are left out.            *)
(***************************************************************************)
EXTENDS Integers, Sequences, FiniteSets, TLC

VARIABLES
    criteria,             \* EvaluationCriteria.CRITERIA: the weight of each metric
    call,                 \* the entry point that was called
    max_iterations,       \* EvaluatorOptimizerWorkflow.max_iterations
    min_quality_threshold,\* EvaluatorOptimizerWorkflow.min_quality_threshold
    inputs,               \* the list passed in: analyses / content_list
    pc,                   \* per task: position of its coroutine
    iteration,            \* per run: the loop variable of process_with_evaluation
    heap,                 \* per run: the dict objects, by reference
    current_analysis,     \* per run: reference held by current_analysis
    workflow_history,     \* per run: the list workflow_history
    iteration_record,     \* per run: the record built in the current iteration
    oracle_calls,         \* per task: the requests sent to the oracle so far
    ret,                  \* per task: what the coroutine returned or raised
    completed,            \* the tasks in the order in which they ended
    batch_results,        \* the list the batch operation returned
    routing_decision,     \* per item: what route_content returned
    chain_results,        \* process_news: the data of the stages that passed
    state,                \* research_stock: the AgentState of the graph
    path,                 \* research_stock: the nodes the graph has entered
    routing_workflow,     \* routers/analysis.py: the module's RoutingWorkflow, or None
    dispatched            \* batch_route_content: how many items are at each point

vars == <<criteria, call, max_iterations, min_quality_threshold, inputs, pc,
          iteration, heap, current_analysis, workflow_history,
          iteration_record, oracle_calls, ret, completed, batch_results,
          routing_decision, chain_results, state, path, routing_workflow,
          dispatched>>

---------------------------------------------------------------------------
(* Bounds of the exploration. *)

\* largest max_iterations a workflow is constructed with
MaxIter == 3
\* largest number of elements of a batch
NumRuns == 2

---------------------------------------------------------------------------
(* Python values.  A value is a number, a string, None or a list; a dict   *)
(* is a function from its keys to values.  Numbers are counted in tenths:  *)
(* Num(70) is the int 7, Float(70) the float 7.0, Float(5) is 0.5.         *)

Num(n) == [ty |-> "num", n |-> n, s |-> ""]
Float(n) == [ty |-> "num", n |-> n, s |-> "float"]

\* type(v).__name__
TypeName(v) ==
    CASE v.ty = "num" -> (IF v.s = "float" THEN "float" ELSE "int")
      [] v.ty = "str" -> "str"
      [] v.ty = "list" -> "list"
      [] v.ty = "null" -> "NoneType"
Str(s) == [ty |-> "str", n |-> 0, s |-> s]
None == [ty |-> "null", n |-> 0, s |-> ""]
ListV == [ty |-> "list", n |-> 0, s |-> ""]

EmptyDict == [k \in {} |-> None]

\* d.get(k, default)
DictGet(d, k, default) == IF k \in DOMAIN d THEN d[k] ELSE default

\* d[k] = v
SetItem(d, k, v) == [x \in (DOMAIN d) \cup {k} |-> IF x = k THEN v ELSE d[x]]

---------------------------------------------------------------------------
(* Oracle texts.  A text is known by its literal; Content gives its tokens. *)

Tok(t) == [t |-> t, k |-> "", v |-> None]
Pair(k, v) == [t |-> "pair", k |-> k, v |-> v]
Scalar(v) == [t |-> "scalar", k |-> "", v |-> v]

Content(text) ==
    CASE text = "not json at all" -> <<Tok("prose")>>
      [] text = "{\"overall_score\": 9}" ->
            <<Tok("{"), Pair("overall_score", Num(90)), Tok("}")>>
      [] text = "{\"overall_score\": 5}" ->
            <<Tok("{"), Pair("overall_score", Num(50)), Tok("}")>>
      [] text = "{\"overall_score\": 15}" ->
            <<Tok("{"), Pair("overall_score", Num(150)), Tok("}")>>
      [] text = "{\"overall_rating\": \"good\"}" ->
            <<Tok("{"), Pair("overall_rating", Str("good")), Tok("}")>>
      [] text = "{\"overall_score\": \"high\"}" ->
            <<Tok("{"), Pair("overall_score", Str("high")), Tok("}")>>
      [] text = "[1, 2]" ->
            <<Tok("["), Scalar(Num(10)), Scalar(Num(20)), Tok("]")>>
      [] text = "7" -> <<Scalar(Num(70))>>
      [] text = "Evaluation: {\"overall_score\": 9}" ->
            <<Tok("prose"), Tok("{"), Pair("overall_score", Num(90)), Tok("}")>>
      [] text = "An improved analysis." -> <<Tok("prose")>>
      [] text = "{\"symbol\": \"AAPL\", \"analysis\": \"v1\"}" ->
            <<Tok("{"), Pair("symbol", Str("AAPL")), Pair("analysis", Str("v1")),
              Tok("}")>>
      [] text = "{\"analysis\": " ->
            <<Tok("{"), Tok("prose")>>
      [] text = " {\"summary\": \"v2\"} " ->
            <<Tok("ws"), Tok("{"), Pair("summary", Str("v2")), Tok("}"), Tok("ws")>>
      [] text = "{\"content_type\": \"earnings\", \"specialist\": \"earnings_analyst\"}" ->
            <<Tok("{"), Pair("content_type", Str("earnings")),
              Pair("specialist", Str("earnings_analyst")), Tok("}")>>
      [] text = "{\"specialist\": \"general_analyst\"}" ->
            <<Tok("{"), Pair("specialist", Str("general_analyst")), Tok("}")>>
      [] text = "{\"specialist\": \"crypto_analyst\"}" ->
            <<Tok("{"), Pair("specialist", Str("crypto_analyst")), Tok("}")>>
      [] text = "{\"content_type\": \"news\"}" ->
            <<Tok("{"), Pair("content_type", Str("news")), Tok("}")>>
      [] text = "{\"specialist\": []}" ->
            <<Tok("{"), Pair("specialist", ListV), Tok("}")>>
      [] text = "{\"valid_articles\": []}" ->
            <<Tok("{"), Pair("valid_articles", ListV), Tok("}")>>
      [] text = "Here you go: {\"valid_articles\": []}" ->
            <<Tok("prose"), Tok("{"), Pair("valid_articles", ListV), Tok("}")>>
      [] text = "{\"valid_articles\": []} {\"note\": \"x\"}" ->
            <<Tok("{"), Pair("valid_articles", ListV), Tok("}"), Tok("ws"),
              Tok("{"), Pair("note", Str("x")), Tok("}")>>
      [] text = "{\"valid_articles\": 7}" ->
            <<Tok("{"), Pair("valid_articles", Num(70)), Tok("}")>>
      [] text = "{\"valid_articles\": 7.5}" ->
            <<Tok("{"), Pair("valid_articles", Float(75)), Tok("}")>>
      [] text = "{\"error\": \"none\"}" ->
            <<Tok("{"), Pair("error", Str("none")), Tok("}")>>
      [] OTHER -> <<Tok("prose")>>

RECURSIVE LStrip(_)
LStrip(toks) ==
    IF toks # <<>> /\ Head(toks).t = "ws" THEN LStrip(Tail(toks)) ELSE toks

RECURSIVE RStrip(_)
RStrip(toks) ==
    IF toks # <<>> /\ toks[Len(toks)].t = "ws"
    THEN RStrip(SubSeq(toks, 1, Len(toks) - 1))
    ELSE toks

\* str.strip()
Strip(toks) == RStrip(LStrip(toks))

\* str.startswith("{")
StartsWithBrace(toks) == toks # <<>> /\ toks[1].t = "{"

\* The object a well-formed "{" pair* "}" decodes to; a later pair wins.
ObjectOf(s) ==
    LET idx == 2..(Len(s) - 1)
        keys == {s[i].k : i \in idx}
        last(k) == CHOOSE i \in idx : s[i].k = k /\ \A j \in idx : s[j].k = k => j <= i
    IN [k \in keys |-> s[last(k)].v]

\* json.loads: whitespace around one JSON value; anything else is a
\* JSONDecodeError (ok = FALSE).
JsonLoads(toks) ==
    LET s == Strip(toks)
        n == Len(s)
        bad == [ok |-> FALSE, ty |-> "", d |-> EmptyDict, v |-> None]
    IN IF n >= 2 /\ s[1].t = "{" /\ s[n].t = "}"
          /\ \A i \in 2..(n - 1) : s[i].t = "pair"
       THEN [ok |-> TRUE, ty |-> "dict", d |-> ObjectOf(s), v |-> None]
       ELSE IF n >= 2 /\ s[1].t = "[" /\ s[n].t = "]"
               /\ \A i \in 2..(n - 1) : s[i].t = "scalar"
       THEN [ok |-> TRUE, ty |-> "list", d |-> EmptyDict, v |-> ListV]
       ELSE IF n = 1 /\ s[1].t = "scalar"
       THEN [ok |-> TRUE, ty |-> s[1].v.ty, d |-> EmptyDict, v |-> s[1].v]
       ELSE bad

---------------------------------------------------------------------------
(* QualityEvaluator and AnalysisOptimizer. *)

\* a table in which the weight of accuracy is a quarter
CRITERIA_Skewed ==
    [accuracy |-> 25, completeness |-> 15, relevance |-> 15,
     actionability |-> 15, clarity |-> 10, timeliness |-> 10,
     risk_assessment |-> 10, data_quality |-> 5]

\* EvaluationCriteria.CRITERIA: the weight of each QualityMetric, in
\* hundredths (0.20 is 20); descriptions and benchmarks are left out.
CRITERIA ==
    [accuracy |-> 20, completeness |-> 15, relevance |-> 15,
     actionability |-> 15, clarity |-> 10, timeliness |-> 10,
     risk_assessment |-> 10, data_quality |-> 5]

\* the overall_score of the fallback evaluation, 6.0, in tenths
FallbackScore == 60
\* the default of evaluation.get("overall_score", 0)
DefaultScore == 0

\* a fallback that leaves the score to the default of the caller's get
_create_fallback_evaluation_NoScore(raw_response) ==
    [overall_rating |-> Str("fair"),
     error |-> Str("Failed to parse evaluation response"),
     raw_response |-> Str(raw_response),
     evaluator |-> Str("QualityEvaluator (fallback)")]

_create_fallback_evaluation(raw_response) ==
    [overall_score |-> Float(FallbackScore),
     overall_rating |-> Str("fair"),
     error |-> Str("Failed to parse evaluation response"),
     raw_response |-> Str(raw_response),
     evaluator |-> Str("QualityEvaluator (fallback)")]

\* an evaluator that falls back when the decoded object has no overall_score
evaluate_analysis_ScoreRequired(text) ==
    LET p == JsonLoads(Content(text))
    IN IF ~p.ok \/ (p.ty = "dict" /\ "overall_score" \notin DOMAIN p.d)
       THEN [raised |-> "", value |-> _create_fallback_evaluation(text)]
       ELSE IF p.ty = "dict"
       THEN [raised |-> "",
             value |-> SetItem(p.d, "evaluator", Str("QualityEvaluator"))]
       ELSE [raised |-> "TypeError", value |-> EmptyDict]

\* What evaluate_analysis does with the oracle's text: the decoded value with
\* the evaluator's name stored in it, the fallback on a JSONDecodeError, and
\* a TypeError when the decoded value takes no item assignment.
evaluate_analysis(text) ==
    LET p == JsonLoads(Content(text))
    IN IF ~p.ok
       THEN [raised |-> "", value |-> _create_fallback_evaluation(text)]
       ELSE IF p.ty = "dict"
       THEN [raised |-> "",
             value |-> SetItem(p.d, "evaluator", Str("QualityEvaluator"))]
       ELSE [raised |-> "TypeError", value |-> EmptyDict]

\* What optimize_analysis returns for the oracle's text.
optimize_analysis(evaluation, text) ==
    [optimized_analysis |-> Str(text),
     based_on_evaluation |-> DictGet(evaluation, "overall_score", Num(DefaultScore)),
     optimizer |-> Str("AnalysisOptimizer")]

---------------------------------------------------------------------------
(* The steps of process_with_evaluation between two oracle calls. *)

\* a threshold check that asks for more than the threshold
ThresholdMet_Strict(score, threshold) == score.n > threshold

\* current_score >= self.min_quality_threshold, for a numeric score
ThresholdMet(score, threshold) == score.n >= threshold

\* a check that lets the last iteration optimize too
NotFinalIteration_OffByOne(i, maxit) == i < maxit

\* iteration < self.max_iterations - 1
NotFinalIteration(i, maxit) == i < maxit - 1

\* for iteration in range(self.max_iterations): there is an iteration after i
RangeHasNext(i, maxit) == i + 1 < maxit

\* a text update that always makes a new dict of the text alone
TextUpdate_DropFields(h, cur, text) ==
    [heap |-> Append(h, [analysis |-> Str(text)]), current |-> Len(h) + 1]

\* The text update of the merge: the "analysis" item of the current dict is
\* assigned in place when the dict has one, else a new dict is made.
TextUpdate(h, cur, text) ==
    IF "analysis" \in DOMAIN h[cur]
    THEN [heap |-> [h EXCEPT ![cur] = SetItem(@, "analysis", Str(text))],
          current |-> cur]
    ELSE [heap |-> Append(h, [analysis |-> Str(text)]),
          current |-> Len(h) + 1]

\* a merge that leaves the artifact as it was
MergeOptimizedAnalysis_Stale(h, cur, text) == [heap |-> h, current |-> cur]

\* Lines 308-323: the artifact of the next iteration.
MergeOptimizedAnalysis(h, cur, text) ==
    IF StartsWithBrace(Strip(Content(text)))
    THEN LET p == JsonLoads(Content(text))
         IN IF p.ok
            THEN [heap |-> Append(h, p.d), current |-> Len(h) + 1]
            ELSE TextUpdate(h, cur, text)
    ELSE TextUpdate(h, cur, text)

\* a result that reports the last loop index as the number of iterations
WorkflowResult_LoopIndex(hist, cur, threshold, maxit) ==
    LET final_evaluation == hist[Len(hist)].evaluation
        final_score == DictGet(final_evaluation, "overall_score", Num(DefaultScore))
    IN [success |-> TRUE,
        final_analysis |-> cur,
        final_evaluation |-> final_evaluation,
        final_score |-> final_score,
        iterations_performed |-> Len(hist) - 1,
        quality_threshold_met |-> final_score.n >= threshold,
        workflow_history |-> hist,
        workflow_summary |->
            [initial_score |-> hist[1].quality_score,
             final_score |-> final_score,
             improvement |-> final_score.n - hist[1].quality_score.n,
             threshold |-> threshold,
             max_iterations |-> maxit]]

\* a result that reports the best score the run has seen
WorkflowResult_BestSeen(hist, cur, threshold, maxit) ==
    LET final_evaluation == hist[Len(hist)].evaluation
        final_score ==
            Num(CHOOSE n \in {hist[k].quality_score.n : k \in 1..Len(hist)} :
                    \A k \in 1..Len(hist) : n >= hist[k].quality_score.n)
    IN [success |-> TRUE,
        final_analysis |-> cur,
        final_evaluation |-> final_evaluation,
        final_score |-> final_score,
        iterations_performed |-> Len(hist),
        quality_threshold_met |-> final_score.n >= threshold,
        workflow_history |-> hist,
        workflow_summary |->
            [initial_score |-> hist[1].quality_score,
             final_score |-> final_score,
             improvement |-> final_score.n - hist[1].quality_score.n,
             threshold |-> threshold,
             max_iterations |-> maxit]]

\* a result whose improvement is measured from the default score
WorkflowResult_FromZero(hist, cur, threshold, maxit) ==
    LET final_evaluation == hist[Len(hist)].evaluation
        final_score == DictGet(final_evaluation, "overall_score", Num(DefaultScore))
    IN [success |-> TRUE,
        final_analysis |-> cur,
        final_evaluation |-> final_evaluation,
        final_score |-> final_score,
        iterations_performed |-> Len(hist),
        quality_threshold_met |-> final_score.n >= threshold,
        workflow_history |-> hist,
        workflow_summary |->
            [initial_score |-> hist[1].quality_score,
             final_score |-> final_score,
             improvement |-> final_score.n - DefaultScore,
             threshold |-> threshold,
             max_iterations |-> maxit]]

\* The dict process_with_evaluation returns after its loop.
WorkflowResult(hist, cur, threshold, maxit) ==
    LET final_evaluation == hist[Len(hist)].evaluation
        final_score == DictGet(final_evaluation, "overall_score", Num(DefaultScore))
    IN [success |-> TRUE,
        final_analysis |-> cur,
        final_evaluation |-> final_evaluation,
        final_score |-> final_score,
        iterations_performed |-> Len(hist),
        quality_threshold_met |-> final_score.n >= threshold,
        workflow_history |-> hist,
        workflow_summary |->
            [initial_score |-> hist[1].quality_score,
             final_score |-> final_score,
             improvement |-> final_score.n - hist[1].quality_score.n,
             threshold |-> threshold,
             max_iterations |-> maxit]]

Pending == [pending |-> TRUE]
Raised(exc) == [exception |-> exc]
\* the classes of builtins and asyncio that derive from BaseException and
\* not from Exception
BaseExceptions == {"BaseException", "BaseExceptionGroup", "CancelledError",
                   "GeneratorExit", "KeyboardInterrupt", "SystemExit"}

\* isinstance(result, Exception)
IsRaised(r) == "exception" \in DOMAIN r /\ r.exception \notin BaseExceptions

NoRecord == [iteration |-> 0, analysis |-> 0, evaluation |-> EmptyDict,
             quality_score |-> None]

\* a record that never says that the threshold was met
Completed_Unmet(rec, optimization, met) ==
    [iteration |-> rec.iteration, analysis |-> rec.analysis,
     evaluation |-> rec.evaluation, quality_score |-> rec.quality_score,
     optimization |-> optimization, threshold_met |-> FALSE]

\* the record with its last two items set, as appended to workflow_history
Completed(rec, optimization, met) ==
    [iteration |-> rec.iteration, analysis |-> rec.analysis,
     evaluation |-> rec.evaluation, quality_score |-> rec.quality_score,
     optimization |-> optimization, threshold_met |-> met]

Tasks == 1..Len(inputs)
Refining == call \in {"process_with_evaluation", "batch_process"}

\* the requests of the evaluate endpoint, each served by a workflow of its own
Requested == call = "evaluate_analysis"

\* a coroutine of process_with_evaluation runs for each task
Running == Refining \/ Requested

\* one workflow, made for the first request, serving every request
Instance_Shared(r) ==
    IF Requested
    THEN [max_iterations |-> inputs[1].max_iterations,
          min_quality_threshold |-> inputs[1].quality_threshold]
    ELSE [max_iterations |-> max_iterations,
          min_quality_threshold |-> min_quality_threshold]

\* The workflow object whose process_with_evaluation runs task r: the one
\* the entry point was called on, or the one the endpoint made for request r.
Instance(r) ==
    IF Requested
    THEN [max_iterations |-> inputs[r].max_iterations,
          min_quality_threshold |-> inputs[r].quality_threshold]
    ELSE [max_iterations |-> max_iterations,
          min_quality_threshold |-> min_quality_threshold]

\* the analysis argument of task r
AnalysisArg(r) == IF Requested THEN inputs[r].analysis ELSE inputs[r]

\* An oracle call as the oracle sees it: its kind, the iteration, the
\* artifact as serialised into the prompt, and the reply once there is one.
InFlight == "(in flight)"
Failed == "(failed)"
\* the awaiting task was cancelled: CancelledError is thrown into the coroutine
Cancelled == "(cancelled)"
Request(kind, i, artifact) ==
    [kind |-> kind, iteration |-> i, artifact |-> artifact, reply |-> InFlight]

\* the last call of the list gets its reply
Reply(calls, text) == [calls EXCEPT ![Len(calls)].reply = text]

\* the coroutine of task r ends with outcome v
End(r, where, v) ==
    /\ pc' = [pc EXCEPT ![r] = where]
    /\ ret' = [ret EXCEPT ![r] = v]
    /\ completed' = Append(completed, r)

---------------------------------------------------------------------------
(* The inputs and the oracle's answers that are explored. *)

InputArtifacts ==
    {[symbol |-> Str("AAPL"), analysis |-> Str("v0")],
     [symbol |-> Str("MSFT")]}

Thresholds == {60, 80}

JudgmentTexts(c) ==
    IF c = "process_with_evaluation"
    THEN {"{\"overall_score\": 9}",
          "{\"overall_score\": 5}",
          "{\"overall_score\": 15}",
          "{\"overall_rating\": \"good\"}",
          "{\"overall_score\": \"high\"}",
          "[1, 2]",
          "7",
          "Evaluation: {\"overall_score\": 9}"}
    ELSE {"{\"overall_score\": 9}", "not json at all"}

OptimizerTexts(c) ==
    IF c = "process_with_evaluation"
    THEN {"An improved analysis.",
          "{\"symbol\": \"AAPL\", \"analysis\": \"v1\"}",
          "{\"analysis\": ",
          " {\"summary\": \"v2\"} ",
          "[1, 2]"}
    ELSE {"An improved analysis."}

RoutingTexts ==
    {"not json at all",
     "{\"content_type\": \"earnings\", \"specialist\": \"earnings_analyst\"}",
     "{\"specialist\": \"general_analyst\"}",
     "{\"specialist\": \"crypto_analyst\"}",
     "{\"content_type\": \"news\"}",
     "{\"specialist\": []}",
     "[1, 2]"}

SpecialistTexts == {"Revenue grew and margins held."}

\* the defaults of EvaluatorOptimizerWorkflow.__init__: 3 and 7.0 (in tenths)
DefaultMaxIterations == 3
DefaultThreshold == 70

SeqsUpTo(S, n) == UNION {[1..k -> S] : k \in 1..n}

\* the batches that are explored: n elements, neighbours differing
BatchOf(n, first, second) ==
    [i \in 1..n |-> IF i % 2 = 1 THEN first ELSE second]

Batches(n, first, second) == {BatchOf(k, first, second) : k \in 1..n}

---------------------------------------------------------------------------
(* process_with_evaluation, one action per stretch between oracle calls. *)

\* a run that works on the caller's dict itself
CopyInput_Alias(h) == [heap |-> h, current |-> 1]

\* current_analysis = analysis.copy(): a new dict object with the same items
CopyInput(h) == [heap |-> Append(h, h[1]), current |-> Len(h) + 1]

\* Lines 270-278: the copy, and the first evaluation request; a loop that
\* runs no iteration goes straight to workflow_history[-1], an IndexError.
Begin(r) ==
    /\ Running
    /\ pc[r] = "start"
    /\ LET c == CopyInput(heap[r])
       IN /\ heap' = [heap EXCEPT ![r] = c.heap]
          /\ current_analysis' = [current_analysis EXCEPT ![r] = c.current]
          /\ IF RangeHasNext(-1, Instance(r).max_iterations)
             THEN /\ pc' = [pc EXCEPT ![r] = "evaluating"]
                  /\ oracle_calls' = [oracle_calls EXCEPT ![r] =
                        Append(@, Request("evaluate", 0, c.heap[c.current]))]
                  /\ UNCHANGED <<ret, completed>>
             ELSE /\ End(r, "raised", Raised("IndexError"))
                  /\ UNCHANGED oracle_calls
    /\ UNCHANGED <<criteria, routing_workflow, dispatched,
                   chain_results, state, path, call,
                   max_iterations, min_quality_threshold, inputs, iteration,
                   workflow_history, iteration_record, batch_results,
                   routing_decision>>

\* Lines 278-298 and 328-360: the evaluation returns text; the record is
\* built, the threshold is checked, and the run returns, or asks for an
\* optimization (lines 300-305).
EvalReturn(r, text) ==
    /\ Running
    /\ pc[r] = "evaluating"
    /\ LET ev == evaluate_analysis(text)
           score == DictGet(ev.value, "overall_score", Num(DefaultScore))
           rec == [iteration |-> iteration[r] + 1,
                   analysis |-> current_analysis[r],
                   evaluation |-> ev.value,
                   quality_score |-> score]
           met == Append(workflow_history[r], Completed(rec, None, TRUE))
           last == Append(workflow_history[r], Completed(rec, None, FALSE))
           replied == Reply(oracle_calls[r], text)
       IN IF ev.raised # ""
          THEN /\ End(r, "raised", Raised(ev.raised))
               /\ oracle_calls' = [oracle_calls EXCEPT ![r] = replied]
               /\ UNCHANGED <<workflow_history, iteration_record, iteration>>
          ELSE IF score.ty # "num"
          THEN /\ End(r, "raised", Raised("TypeError"))
               /\ iteration_record' = [iteration_record EXCEPT ![r] = rec]
               /\ oracle_calls' = [oracle_calls EXCEPT ![r] = replied]
               /\ UNCHANGED <<workflow_history, iteration>>
          ELSE IF ThresholdMet(score, Instance(r).min_quality_threshold)
          THEN /\ workflow_history' = [workflow_history EXCEPT ![r] = met]
               /\ iteration_record' = [iteration_record EXCEPT ![r] = rec]
               /\ End(r, "done", WorkflowResult(met, current_analysis[r],
                                     Instance(r).min_quality_threshold,
                                     Instance(r).max_iterations))
               /\ oracle_calls' = [oracle_calls EXCEPT ![r] = replied]
               /\ UNCHANGED iteration
          ELSE IF NotFinalIteration(iteration[r], Instance(r).max_iterations)
          THEN /\ pc' = [pc EXCEPT ![r] = "optimizing"]
               /\ iteration_record' = [iteration_record EXCEPT ![r] = rec]
               /\ oracle_calls' = [oracle_calls EXCEPT ![r] =
                     Append(replied, Request("optimize", iteration[r],
                                             heap[r][current_analysis[r]]))]
               /\ UNCHANGED <<workflow_history, ret, completed, iteration>>
          ELSE IF RangeHasNext(iteration[r], Instance(r).max_iterations)
          THEN /\ workflow_history' = [workflow_history EXCEPT ![r] = last]
               /\ iteration_record' = [iteration_record EXCEPT ![r] = rec]
               /\ iteration' = [iteration EXCEPT ![r] = @ + 1]
               /\ oracle_calls' = [oracle_calls EXCEPT ![r] =
                     Append(replied, Request("evaluate", iteration[r] + 1,
                                             heap[r][current_analysis[r]]))]
               /\ UNCHANGED <<pc, ret, completed>>
          ELSE /\ workflow_history' = [workflow_history EXCEPT ![r] = last]
               /\ iteration_record' = [iteration_record EXCEPT ![r] = rec]
               /\ End(r, "done", WorkflowResult(last, current_analysis[r],
                                     Instance(r).min_quality_threshold,
                                     Instance(r).max_iterations))
               /\ oracle_calls' = [oracle_calls EXCEPT ![r] = replied]
               /\ UNCHANGED iteration
    /\ UNCHANGED <<criteria, routing_workflow, dispatched,
                   chain_results, state, path, call,
                   max_iterations, min_quality_threshold, inputs,
                   heap, current_analysis, batch_results, routing_decision>>

\* Line 278: the evaluation's oracle call fails; nothing catches it.
EvalFail(r) ==
    /\ Running
    /\ pc[r] = "evaluating"
    /\ End(r, "raised", Raised("OracleError"))
    /\ oracle_calls' = [oracle_calls EXCEPT ![r] = Reply(@, Failed)]
    /\ UNCHANGED <<criteria, routing_workflow, dispatched,
                   chain_results, state, path, call,
                   max_iterations, min_quality_threshold, inputs, iteration,
                   heap, current_analysis, workflow_history, iteration_record,
                   batch_results, routing_decision>>

\* Lines 303-333 and 273-278: the optimization returns text; it is merged,
\* the record is appended, and the next iteration's evaluation is requested
\* (the run returns if the loop has no next iteration).
OptReturn(r, text) ==
    /\ Running
    /\ pc[r] = "optimizing"
    /\ LET optimization == optimize_analysis(iteration_record[r].evaluation, text)
           m == MergeOptimizedAnalysis(heap[r], current_analysis[r], text)
           hist == Append(workflow_history[r],
                          Completed(iteration_record[r], optimization, FALSE))
           replied == Reply(oracle_calls[r], text)
       IN /\ heap' = [heap EXCEPT ![r] = m.heap]
          /\ current_analysis' = [current_analysis EXCEPT ![r] = m.current]
          /\ workflow_history' = [workflow_history EXCEPT ![r] = hist]
          /\ IF RangeHasNext(iteration[r], Instance(r).max_iterations)
             THEN /\ iteration' = [iteration EXCEPT ![r] = @ + 1]
                  /\ pc' = [pc EXCEPT ![r] = "evaluating"]
                  /\ oracle_calls' = [oracle_calls EXCEPT ![r] =
                        Append(replied, Request("evaluate", iteration[r] + 1,
                                                m.heap[m.current]))]
                  /\ UNCHANGED <<ret, completed>>
             ELSE /\ End(r, "done", WorkflowResult(hist, m.current,
                                        Instance(r).min_quality_threshold,
                                        Instance(r).max_iterations))
                  /\ oracle_calls' = [oracle_calls EXCEPT ![r] = replied]
                  /\ UNCHANGED iteration
    /\ UNCHANGED <<criteria, routing_workflow, dispatched,
                   chain_results, state, path, call,
                   max_iterations, min_quality_threshold, inputs,
                   iteration_record, batch_results, routing_decision>>

\* Line 303: the optimization's oracle call fails; nothing catches it.
OptFail(r) ==
    /\ Running
    /\ pc[r] = "optimizing"
    /\ End(r, "raised", Raised("OracleError"))
    /\ oracle_calls' = [oracle_calls EXCEPT ![r] = Reply(@, Failed)]
    /\ UNCHANGED <<criteria, routing_workflow, dispatched,
                   chain_results, state, path, call,
                   max_iterations, min_quality_threshold, inputs, iteration,
                   heap, current_analysis, workflow_history, iteration_record,
                   batch_results, routing_decision>>

\* Lines 278 and 303: the task that runs process_with_evaluation is
\* cancelled while it awaits an oracle call; CancelledError is raised at the
\* await and nothing in the coroutine handles it.
Cancel(r) ==
    /\ call = "process_with_evaluation"
    /\ pc[r] \in {"evaluating", "optimizing"}
    /\ End(r, "raised", Raised("CancelledError"))
    /\ oracle_calls' = [oracle_calls EXCEPT ![r] = Reply(@, Cancelled)]
    /\ UNCHANGED <<criteria, routing_workflow, dispatched,
                   chain_results, state, path, call,
                   max_iterations, min_quality_threshold, inputs, iteration,
                   heap, current_analysis, workflow_history, iteration_record,
                   batch_results, routing_decision>>

---------------------------------------------------------------------------
(* ContentRouter and RoutingWorkflow. *)

\* the values of SpecialistType
SpecialistType ==
    {"earnings_analyst", "news_analyst", "market_analyst", "technical_analyst",
     "economic_analyst", "general_analyst"}

\* the keys of RoutingWorkflow.specialists
Specialists ==
    {"earnings_analyst", "news_analyst", "market_analyst", "technical_analyst",
     "economic_analyst"}

\* the dict returned when the router's text does not decode
FallbackRouting ==
    [content_type |-> Str("unknown"),
     specialist |-> Str("general_analyst"),
     confidence |-> Float(5),
     reasoning |-> Str("Failed to parse routing decision, using general analyst"),
     priority |-> Str("medium"),
     estimated_complexity |-> Str("moderate")]

\* What route_content returns for the oracle's text: the decoded value as it
\* is, or the fallback dict on a JSONDecodeError.
route_content(text) ==
    LET p == JsonLoads(Content(text))
    IN IF p.ok
       THEN [ty |-> p.ty, d |-> p.d, v |-> p.v]
       ELSE [ty |-> "dict", d |-> FallbackRouting, v |-> None]

\* a lookup without a default handler: a name outside the table stays unmapped
specialist_mapping_NoDefault(name) ==
    IF name.ty = "str" /\ name.s \in Specialists THEN name.s ELSE "general_analyst"

\* specialist_mapping.get(specialist_type_str, SpecialistType.NEWS_ANALYST)
specialist_mapping(name) ==
    IF name.ty = "str" /\ name.s \in Specialists THEN name.s ELSE "news_analyst"

\* Lines 383-396: the handler process_content picks for a decision, "" when
\* self.specialists has none, or the exception the lookup raises.
ResolveSpecialist(decision) ==
    IF decision.ty # "dict"
    THEN [raised |-> "AttributeError", specialist |-> ""]
    ELSE LET name == DictGet(decision.d, "specialist", Str("general_analyst"))
         IN IF name.ty = "list"
            THEN [raised |-> "TypeError", specialist |-> ""]
            ELSE LET t == specialist_mapping(name)
                 IN [raised |-> "",
                     specialist |-> IF t \in Specialists THEN t ELSE ""]

\* the dict a specialist's analyze returns for the oracle's text
SpecialistAnalysis(specialist, text) ==
    [specialist |-> Str(specialist), analysis |-> Str(text)]

\* the dict of the except branch of process_content
Failure(exc) == [success |-> FALSE, error |-> exc]

Routing == call = "process_multiple_content"

\* Lines 378-381 and 75: the router's oracle call is made.
RouteBegin(i) ==
    /\ Routing
    /\ pc[i] = "start"
    /\ pc' = [pc EXCEPT ![i] = "routing"]
    /\ oracle_calls' = [oracle_calls EXCEPT ![i] =
          Append(@, Request("route", 0, inputs[i]))]
    /\ UNCHANGED <<criteria, routing_workflow, dispatched,
                   chain_results, state, path, call,
                   max_iterations, min_quality_threshold, inputs, iteration,
                   heap, current_analysis, workflow_history, iteration_record,
                   ret, completed, batch_results, routing_decision>>

\* Lines 77-89 and 383-409: the router's text is decoded, the handler is
\* looked up and its oracle call is made; an exception ends the coroutine
\* with the failure dict.
RouteReturn(i, text) ==
    /\ Routing
    /\ pc[i] = "routing"
    /\ LET decision == route_content(text)
           res == ResolveSpecialist(decision)
           replied == Reply(oracle_calls[i], text)
       IN /\ routing_decision' = [routing_decision EXCEPT ![i] = decision]
          /\ IF res.raised # ""
             THEN /\ End(i, "done", Failure(res.raised))
                  /\ oracle_calls' = [oracle_calls EXCEPT ![i] = replied]
             ELSE IF res.specialist = ""
             THEN /\ End(i, "done",
                         [error |-> "No specialist available",
                          routing_decision |-> decision])
                  /\ oracle_calls' = [oracle_calls EXCEPT ![i] = replied]
             ELSE /\ pc' = [pc EXCEPT ![i] = "analyzing"]
                  /\ oracle_calls' = [oracle_calls EXCEPT ![i] =
                        Append(replied, Request(res.specialist, 0, inputs[i]))]
                  /\ UNCHANGED <<ret, completed>>
    /\ UNCHANGED <<criteria, routing_workflow, dispatched,
                   chain_results, state, path, call,
                   max_iterations, min_quality_threshold, inputs, iteration,
                   heap, current_analysis, workflow_history, iteration_record,
                   batch_results>>

\* Lines 75 and 421-427: the router's oracle call fails.
RouteFail(i) ==
    /\ Routing
    /\ pc[i] = "routing"
    /\ End(i, "done", Failure("OracleError"))
    /\ oracle_calls' = [oracle_calls EXCEPT ![i] = Reply(@, Failed)]
    /\ UNCHANGED <<criteria, routing_workflow, dispatched,
                   chain_results, state, path, call,
                   max_iterations, min_quality_threshold, inputs, iteration,
                   heap, current_analysis, workflow_history, iteration_record,
                   batch_results, routing_decision>>

\* Lines 409-419: the specialist's text returns and process_content returns.
AnalyzeReturn(i, text) ==
    /\ Routing
    /\ pc[i] = "analyzing"
    /\ End(i, "done",
           [success |-> TRUE,
            routing_decision |-> routing_decision[i],
            specialist_analysis |->
                SpecialistAnalysis(ResolveSpecialist(routing_decision[i]).specialist,
                                   text)])
    /\ oracle_calls' = [oracle_calls EXCEPT ![i] = Reply(@, text)]
    /\ UNCHANGED <<criteria, routing_workflow, dispatched,
                   chain_results, state, path, call,
                   max_iterations, min_quality_threshold, inputs, iteration,
                   heap, current_analysis, workflow_history, iteration_record,
                   batch_results, routing_decision>>

\* Lines 409 and 421-427: the specialist's oracle call fails.
AnalyzeFail(i) ==
    /\ Routing
    /\ pc[i] = "analyzing"
    /\ End(i, "done", Failure("OracleError"))
    /\ oracle_calls' = [oracle_calls EXCEPT ![i] = Reply(@, Failed)]
    /\ UNCHANGED <<criteria, routing_workflow, dispatched,
                   chain_results, state, path, call,
                   max_iterations, min_quality_threshold, inputs, iteration,
                   heap, current_analysis, workflow_history, iteration_record,
                   batch_results, routing_decision>>

---------------------------------------------------------------------------
(* The batch operations. *)

Ended(r) == pc[r] \in {"done", "raised"}

\* a gather that lists the outcomes in the order in which the tasks ended
gather_AsCompleted(outcomes, order) == [i \in 1..Len(order) |-> outcomes[order[i]]]

\* asyncio.gather(*tasks, return_exceptions=True): the outcomes in the order
\* of the tasks, whatever the order in which they ended
gather(outcomes, order) == [i \in 1..Len(order) |-> outcomes[i]]

\* result if not isinstance(result, Exception) else {"error": str(result)};
\* a CancelledError among the results is no Exception and stays as it is
ErrorEntries(results) ==
    [i \in DOMAIN results |->
        IF IsRaised(results[i]) THEN [error |-> results[i].exception]
        ELSE results[i]]

\* Lines 367-370 of evaluator_optimizer.py: batch_process returns.
BatchReturn ==
    /\ call = "batch_process"
    /\ batch_results = <<>>
    /\ \A r \in Tasks : Ended(r)
    /\ batch_results' = ErrorEntries(gather(ret, completed))
    /\ UNCHANGED <<criteria, routing_workflow, dispatched,
                   chain_results, state, path, call,
                   max_iterations, min_quality_threshold, inputs, pc,
                   iteration, heap, current_analysis, workflow_history,
                   iteration_record, oracle_calls, ret, completed,
                   routing_decision>>

\* Lines 432-435 of routing.py: process_multiple_content returns.
RoutingBatchReturn ==
    /\ Routing
    /\ batch_results = <<>>
    /\ \A i \in Tasks : Ended(i)
    /\ batch_results' = ErrorEntries(gather(ret, completed))
    /\ UNCHANGED <<criteria, routing_workflow, dispatched,
                   chain_results, state, path, call,
                   max_iterations, min_quality_threshold, inputs, pc,
                   iteration, heap, current_analysis, workflow_history,
                   iteration_record, oracle_calls, ret, completed,
                   routing_decision>>

---------------------------------------------------------------------------
(* NewsProcessingChain. *)

\* re.search(r'\{.*\}', output, re.DOTALL): the text from the first "{" to
\* the last "}" after it (the match is greedy); <<>> when there is none
BraceMatch(toks) ==
    LET opens == {i \in DOMAIN toks : toks[i].t = "{"}
        first == CHOOSE i \in opens : \A j \in opens : i <= j
        closes == {j \in DOMAIN toks : toks[j].t = "}" /\ j > first}
        last == CHOOSE j \in closes : \A i \in closes : i <= j
    IN IF opens = {} THEN <<>>
       ELSE IF closes = {} THEN <<>>
       ELSE SubSeq(toks, first, last)

\* NewsProcessingChain._parse_json_output
_parse_json_output(output) ==
    LET json_match == BraceMatch(Content(output))
    IN IF json_match = <<>>
       THEN [error |-> Str("No valid JSON found"), raw_output |-> Str(output)]
       ELSE IF JsonLoads(json_match).ok
       THEN JsonLoads(json_match).d
       ELSE [error |-> Str("Invalid JSON"), raw_output |-> Str(output)]

\* the stages of process_news that parse the oracle's answer, in order
ParsedStages == <<"ingest", "preprocess", "classify", "extract">>

\* the key of a stage's data in chain_results
StageKey(stage) ==
    CASE stage = "ingest" -> "ingested"
      [] stage = "preprocess" -> "preprocessed"
      [] stage = "classify" -> "classified"
      [] stage = "extract" -> "extracted"
      [] stage = "summarize" -> "summary"

\* the error a stage returns when its data has an "error" item
StageError(stage) ==
    CASE stage = "ingest" -> "Ingestion failed"
      [] stage = "preprocess" -> "Preprocessing failed"
      [] stage = "classify" -> "Classification failed"
      [] stage = "extract" -> "Extraction failed"

\* an order of the chains that leaves the classification out
StageAfter_SkipClassify(stage) ==
    CASE stage = "ingest" -> "preprocess"
      [] stage = "preprocess" -> "extract"
      [] stage = "classify" -> "extract"
      [] stage = "extract" -> "summarize"

\* the stage that follows a stage
StageAfter(stage) ==
    CASE stage = "ingest" -> "preprocess"
      [] stage = "preprocess" -> "classify"
      [] stage = "classify" -> "extract"
      [] stage = "extract" -> "summarize"

\* len(v): the lists of the explored texts are empty
HasLen(v) == v.ty \in {"list", "str"}
PyLen(v) == IF v.ty = "str" THEN Len(v.s) ELSE v.n

\* Lines 303-327: the dict process_news returns after the summary
NewsResult(raw_news_data, results) ==
    LET valid_articles == DictGet(results["ingested"], "valid_articles", ListV)
    IN IF HasLen(valid_articles)
       THEN [success |-> TRUE,
             chain_results |-> results,
             final_summary |-> results["summary"],
             metadata |-> [total_articles_processed |-> Len(raw_news_data),
                           valid_articles |-> PyLen(valid_articles)]]
       ELSE [success |-> FALSE,
             error |-> Str("object of type '" \o TypeName(valid_articles)
                               \o "' has no len()")]

Chaining == call = "process_news"

\* Lines 255-259: process_news starts and awaits the ingestion chain.
NewsBegin ==
    /\ Chaining
    /\ pc[1] = "start"
    /\ pc' = [pc EXCEPT ![1] = "ingest"]
    /\ oracle_calls' = [oracle_calls EXCEPT ![1] =
          Append(@, Request("ingest", 0, inputs[1]))]
    /\ UNCHANGED <<criteria, routing_workflow, dispatched,
                   chain_results, state, path, call,
                   max_iterations, min_quality_threshold, inputs, iteration,
                   heap, current_analysis, workflow_history, iteration_record,
                   ret, completed, batch_results, routing_decision>>

\* Lines 260-299: a chain of the first four stages returns text; it is
\* parsed, and process_news returns the stage's error or awaits the next
\* chain with the data.
StageReturn(text) ==
    /\ Chaining
    /\ \E k \in DOMAIN ParsedStages : pc[1] = ParsedStages[k]
    /\ LET stage == pc[1]
           data == _parse_json_output(text)
           replied == Reply(oracle_calls[1], text)
       IN IF "error" \in DOMAIN data
          THEN /\ End(1, "done", [error |-> Str(StageError(stage)), details |-> data])
               /\ oracle_calls' = [oracle_calls EXCEPT ![1] = replied]
               /\ UNCHANGED chain_results
          ELSE /\ chain_results' = SetItem(chain_results, StageKey(stage), data)
               /\ pc' = [pc EXCEPT ![1] = StageAfter(stage)]
               /\ oracle_calls' = [oracle_calls EXCEPT ![1] =
                     Append(replied, Request(StageAfter(stage), 0, data))]
               /\ UNCHANGED <<ret, completed>>
    /\ UNCHANGED <<criteria, routing_workflow, dispatched,
                   state, path, call,
                   max_iterations, min_quality_threshold, inputs, iteration,
                   heap, current_analysis, workflow_history, iteration_record,
                   batch_results, routing_decision>>

\* Lines 299-319: the summarization chain returns text, which is not
\* parsed; process_news returns its result (an exception in building it is
\* caught at line 321).
SummaryReturn(text) ==
    /\ Chaining
    /\ pc[1] = "summarize"
    /\ chain_results' = SetItem(chain_results, "summary", Str(text))
    /\ End(1, "done", NewsResult(inputs[1], chain_results'))
    /\ oracle_calls' = [oracle_calls EXCEPT ![1] = Reply(@, text)]
    /\ UNCHANGED <<criteria, routing_workflow, dispatched,
                   state, path, call,
                   max_iterations, min_quality_threshold, inputs, iteration,
                   heap, current_analysis, workflow_history, iteration_record,
                   batch_results, routing_decision>>

\* Lines 321-327: a chain raises; process_news catches it and returns.
StageFail ==
    /\ Chaining
    /\ pc[1] \in {"ingest", "preprocess", "classify", "extract", "summarize"}
    /\ End(1, "done", [success |-> FALSE, error |-> Str("OracleError")])
    /\ oracle_calls' = [oracle_calls EXCEPT ![1] = Reply(@, Failed)]
    /\ UNCHANGED <<criteria, routing_workflow, dispatched,
                   chain_results, state, path, call,
                   max_iterations, min_quality_threshold, inputs, iteration,
                   heap, current_analysis, workflow_history, iteration_record,
                   batch_results, routing_decision>>

---------------------------------------------------------------------------
(* InvestmentResearchAgent.  Its texts are read character by character. *)

\* state["max_iterations"] = 3
ResearchMaxIterations == 3

Char(s, i) == SubSeq(s, i, i)

\* The characters of a text are those a string can hold here, U+0000 to
\* U+00FF.

\* str.strip(): the characters str.isspace() is true for: tab, newline,
\* U+000B, form feed, return, U+001C to U+001F, space, U+0085, U+00A0
Whitespace == {"\t", "\n", "", "\f", "\r", "", "", "", "", " ", "", " "}

\* the digits of the argument of lstrip('-*0123456789. ')
DecimalDigits == {"0", "1", "2", "3", "4", "5", "6", "7", "8", "9"}

\* str.isdigit(): the decimal digits and the superscripts two, three, one
Digits == DecimalDigits \cup {"²", "³", "¹"}

\* str.lstrip(chars)
LStripChars(s, chars) ==
    LET kept == {i \in 1..Len(s) : Char(s, i) \notin chars}
    IN IF kept = {} THEN ""
       ELSE SubSeq(s, CHOOSE i \in kept : \A j \in kept : i <= j, Len(s))

\* str.rstrip(chars)
RStripChars(s, chars) ==
    LET kept == {i \in 1..Len(s) : Char(s, i) \notin chars}
    IN IF kept = {} THEN ""
       ELSE SubSeq(s, 1, CHOOSE i \in kept : \A j \in kept : j <= i)

\* str.strip() of a string
StripStr(s) == RStripChars(LStripChars(s, Whitespace), Whitespace)

\* the lines of s that start at position n or later
RECURSIVE LinesFrom(_, _)
LinesFrom(s, n) ==
    LET breaks == {j \in n..Len(s) : Char(s, j) = "\n"}
        first == CHOOSE j \in breaks : \A k \in breaks : j <= k
    IN IF breaks = {} THEN <<SubSeq(s, n, Len(s))>>
       ELSE <<SubSeq(s, n, first - 1)>> \o LinesFrom(s, first + 1)

\* str.split('\n')
SplitLines(s) == LinesFrom(s, 1)

\* str.lower() of one character
LowerChar(c) ==
    CASE c = "A" -> "a" [] c = "B" -> "b" [] c = "C" -> "c" [] c = "D" -> "d"
      [] c = "E" -> "e" [] c = "F" -> "f" [] c = "G" -> "g" [] c = "H" -> "h"
      [] c = "I" -> "i" [] c = "J" -> "j" [] c = "K" -> "k" [] c = "L" -> "l"
      [] c = "M" -> "m" [] c = "N" -> "n" [] c = "O" -> "o" [] c = "P" -> "p"
      [] c = "Q" -> "q" [] c = "R" -> "r" [] c = "S" -> "s" [] c = "T" -> "t"
      [] c = "U" -> "u" [] c = "V" -> "v" [] c = "W" -> "w" [] c = "X" -> "x"
      [] c = "Y" -> "y" [] c = "Z" -> "z" [] c = "À" -> "à" [] c = "Á" -> "á"
      [] c = "Â" -> "â" [] c = "Ã" -> "ã" [] c = "Ä" -> "ä" [] c = "Å" -> "å"
      [] c = "Æ" -> "æ" [] c = "Ç" -> "ç" [] c = "È" -> "è" [] c = "É" -> "é"
      [] c = "Ê" -> "ê" [] c = "Ë" -> "ë" [] c = "Ì" -> "ì" [] c = "Í" -> "í"
      [] c = "Î" -> "î" [] c = "Ï" -> "ï" [] c = "Ð" -> "ð" [] c = "Ñ" -> "ñ"
      [] c = "Ò" -> "ò" [] c = "Ó" -> "ó" [] c = "Ô" -> "ô" [] c = "Õ" -> "õ"
      [] c = "Ö" -> "ö" [] c = "Ø" -> "ø" [] c = "Ù" -> "ù" [] c = "Ú" -> "ú"
      [] c = "Û" -> "û" [] c = "Ü" -> "ü" [] c = "Ý" -> "ý" [] c = "Þ" -> "þ" [] OTHER -> c

\* the characters of s from position n on, in lower case
RECURSIVE LowerFrom(_, _)
LowerFrom(s, n) ==
    IF n > Len(s) THEN ""
    ELSE LowerChar(Char(s, n)) \o LowerFrom(s, n + 1)

\* str.lower()
Lower(s) == LowerFrom(s, 1)

\* phrase in s
Contains(s, phrase) ==
    \E i \in 1..(Len(s) - Len(phrase) + 1) :
        SubSeq(s, i, i + Len(phrase) - 1) = phrase

\* the steps of the lines of a plan from line n on, in order
RECURSIVE PlanSteps(_, _)
PlanSteps(lines, n) ==
    IF n > Len(lines) THEN <<>>
    ELSE LET line == StripStr(lines[n])
             clean_step ==
                 StripStr(LStripChars(line,
                     {"-", "*", ".", " "} \cup DecimalDigits))
         IN IF Len(line) > 0 /\ Char(line, 1) \in ({"-", "*"} \cup Digits)
               /\ Len(clean_step) > 0
            THEN <<clean_step>> \o PlanSteps(lines, n + 1)
            ELSE PlanSteps(lines, n + 1)

\* InvestmentResearchAgent._parse_research_plan
_parse_research_plan(plan_text) ==
    IF PlanSteps(SplitLines(plan_text), 1) # <<>>
    THEN PlanSteps(SplitLines(plan_text), 1)
    ELSE <<"Analyze company fundamentals", "Review recent news",
           "Assess market trends">>

\* the phrases that ask for a refinement
RefinePhrases == {"below 7", "insufficient", "incomplete", "needs improvement"}

\* a decision that does not look at the iteration count
_should_refine_Unbounded(st) ==
    IF \E phrase \in RefinePhrases :
          Contains(Lower(st.quality_assessment.assessment_text), phrase)
    THEN "refine"
    ELSE "proceed"

\* InvestmentResearchAgent._should_refine
_should_refine(st) ==
    LET assessment_text == Lower(st.quality_assessment.assessment_text)
    IN IF st.iteration_count >= st.max_iterations THEN "proceed"
       ELSE IF \E phrase \in RefinePhrases : Contains(assessment_text, phrase)
       THEN "refine"
       ELSE "proceed"

END == "END"

\* a graph whose analyzer leads to the reporter
Edge_SkipAssessment(node, st) ==
    CASE node = "planner" -> "data_collector"
      [] node = "data_collector" -> "analyzer"
      [] node = "analyzer" -> "reporter"
      [] node = "quality_assessor" ->
            IF _should_refine(st) = "refine" THEN "data_collector" ELSE "reporter"
      [] node = "reporter" -> "memory_updater"
      [] node = "memory_updater" -> END

\* _build_graph: the node that follows a node, given the state it returned
Edge(node, st) ==
    CASE node = "planner" -> "data_collector"
      [] node = "data_collector" -> "analyzer"
      [] node = "analyzer" -> "quality_assessor"
      [] node = "quality_assessor" ->
            IF _should_refine(st) = "refine" THEN "data_collector" ELSE "reporter"
      [] node = "reporter" -> "memory_updater"
      [] node = "memory_updater" -> END

\* the nodes that await the oracle
OracleNodes ==
    {"planner", "analyzer", "quality_assessor", "reporter", "memory_updater"}

\* research_stock: initial_state
InitialState(stock_symbol) ==
    [stock_symbol |-> stock_symbol,
     research_plan |-> <<>>,
     collected_data |-> EmptyDict,
     analysis_results |-> EmptyDict,
     quality_assessment |-> EmptyDict,
     final_report |-> "",
     memory_notes |-> <<>>,
     iteration_count |-> 0,
     max_iterations |-> ResearchMaxIterations]

\* _collect_data: the three groups of placeholders
CollectedData ==
    [financial_metrics |-> Str("Placeholder"),
     news_sentiment |-> Str("Placeholder"),
     technical_analysis |-> Str("Placeholder")]

\* research_stock: the dict it returns
ResearchResult(final_state) ==
    [stock_symbol |-> final_state.stock_symbol,
     research_plan |-> final_state.research_plan,
     final_report |-> final_state.final_report,
     quality_assessment |-> final_state.quality_assessment,
     memory_notes |-> final_state.memory_notes,
     iterations |-> final_state.iteration_count]

Researching == call = "research_stock"

\* The graph leaves a node that returned st: it enters the node the edge
\* names, which starts its oracle call if it has one, or research_stock
\* returns when the edge leads to END.
Leave(node, st, calls) ==
    LET next == Edge(node, st)
    IN /\ state' = st
       /\ IF next = END
          THEN /\ End(1, "done", ResearchResult(st))
               /\ oracle_calls' = [oracle_calls EXCEPT ![1] = calls]
               /\ UNCHANGED path
          ELSE /\ pc' = [pc EXCEPT ![1] = next]
               /\ path' = Append(path, next)
               /\ oracle_calls' = [oracle_calls EXCEPT ![1] =
                     IF next \in OracleNodes
                     THEN Append(calls, Request(next, st.iteration_count,
                                                st.stock_symbol))
                     ELSE calls]
               /\ UNCHANGED <<ret, completed>>
       /\ UNCHANGED <<criteria, routing_workflow, dispatched,
                      chain_results, call,
                      max_iterations, min_quality_threshold, inputs, iteration,
                      heap, current_analysis, workflow_history,
                      iteration_record, batch_results, routing_decision>>

\* Lines 304-320: research_stock builds the state and runs the graph, which
\* enters the planner.
ResearchBegin ==
    /\ Researching
    /\ pc[1] = "start"
    /\ state' = InitialState(inputs[1])
    /\ pc' = [pc EXCEPT ![1] = "planner"]
    /\ path' = <<"planner">>
    /\ oracle_calls' = [oracle_calls EXCEPT ![1] =
          Append(@, Request("planner", 0, inputs[1]))]
    /\ UNCHANGED <<criteria, routing_workflow, dispatched,
                   chain_results, call,
                   max_iterations, min_quality_threshold, inputs, iteration,
                   heap, current_analysis, workflow_history, iteration_record,
                   ret, completed, batch_results, routing_decision>>

\* Lines 75-103
_plan_research(text) ==
    /\ Researching
    /\ pc[1] = "planner"
    /\ Leave("planner",
             [state EXCEPT !.research_plan = _parse_research_plan(text),
                           !.iteration_count = 0,
                           !.max_iterations = ResearchMaxIterations],
             Reply(oracle_calls[1], text))

\* Lines 105-135
_collect_data ==
    /\ Researching
    /\ pc[1] = "data_collector"
    /\ Leave("data_collector", [state EXCEPT !.collected_data = CollectedData],
             oracle_calls[1])

\* Lines 137-168
_analyze_data(text) ==
    /\ Researching
    /\ pc[1] = "analyzer"
    /\ Leave("analyzer",
             [state EXCEPT !.analysis_results =
                 [analysis_text |-> text,
                  analyst |-> "Investment Research Agent"]],
             Reply(oracle_calls[1], text))

\* Lines 170-204
_assess_quality(text) ==
    /\ Researching
    /\ pc[1] = "quality_assessor"
    /\ Leave("quality_assessor",
             [state EXCEPT !.quality_assessment =
                              [assessment_text |-> text,
                               iteration |-> state.iteration_count],
                           !.iteration_count = @ + 1],
             Reply(oracle_calls[1], text))

\* Lines 222-251
_generate_report(text) ==
    /\ Researching
    /\ pc[1] = "reporter"
    /\ Leave("reporter", [state EXCEPT !.final_report = text],
             Reply(oracle_calls[1], text))

\* Lines 253-286
_update_memory(text) ==
    /\ Researching
    /\ pc[1] = "memory_updater"
    /\ Leave("memory_updater",
             [state EXCEPT !.memory_notes =
                 Append(@, [stock_symbol |-> state.stock_symbol,
                            learnings |-> text])],
             Reply(oracle_calls[1], text))

\* self.llm.ainvoke raises in a node; no node and no caller in the agent
\* catches it, so graph.ainvoke and research_stock raise.
ResearchFail ==
    /\ Researching
    /\ pc[1] \in OracleNodes
    /\ End(1, "raised", Raised("OracleError"))
    /\ oracle_calls' = [oracle_calls EXCEPT ![1] = Reply(@, Failed)]
    /\ UNCHANGED <<criteria, routing_workflow, dispatched,
                   chain_results, state, path, call,
                   max_iterations, min_quality_threshold, inputs, iteration,
                   heap, current_analysis, workflow_history, iteration_record,
                   batch_results, routing_decision>>

---------------------------------------------------------------------------

\* no item of a batch request has been dispatched
NoDispatch == [pending |-> 0, routing |-> 0, analyzing |-> 0, succeeded |-> 0,
               failed |-> 0, calls_started |-> 0]

InitTasks ==
    /\ criteria = CRITERIA
    /\ pc = [r \in Tasks |-> "start"]
    /\ iteration = [r \in Tasks |-> 0]
    /\ heap = [r \in Tasks |-> <<AnalysisArg(r)>>]
    /\ current_analysis = [r \in Tasks |-> 0]
    /\ workflow_history = [r \in Tasks |-> <<>>]
    /\ iteration_record = [r \in Tasks |-> NoRecord]
    /\ oracle_calls = [r \in Tasks |-> <<>>]
    /\ ret = [r \in Tasks |-> Pending]
    /\ routing_decision = [r \in Tasks |-> EmptyDict]
    /\ completed = <<>>
    /\ batch_results = <<>>
    /\ chain_results = EmptyDict
    /\ state = EmptyDict
    /\ path = <<>>
    /\ routing_workflow = "RoutingWorkflow"
    /\ dispatched = NoDispatch

InitRun ==
    /\ call = "process_with_evaluation"
    /\ max_iterations \in 0..MaxIter
    /\ min_quality_threshold \in Thresholds
    /\ inputs \in SeqsUpTo(InputArtifacts, 1)
    /\ InitTasks

InitBatch ==
    /\ call = "batch_process"
    /\ max_iterations \in 0..MaxIter
    /\ min_quality_threshold \in Thresholds
    /\ inputs \in Batches(NumRuns, [symbol |-> Str("AAPL"), analysis |-> Str("v0")],
                                   [symbol |-> Str("MSFT")])
    /\ InitTasks

InitRouting ==
    /\ call = "process_multiple_content"
    /\ max_iterations = DefaultMaxIterations
    /\ min_quality_threshold = DefaultThreshold
    /\ inputs \in Batches(NumRuns, [type |-> Str("earnings_report")], EmptyDict)
    /\ InitTasks

\* the request that is i-th in a set of concurrent requests: the maximum
\* and the threshold differ between neighbours, k and j shift them
RequestOf(i, k, j) ==
    [analysis |-> IF i % 2 = 1 THEN [symbol |-> Str("AAPL"), analysis |-> Str("v0")]
                  ELSE [symbol |-> Str("MSFT")],
     max_iterations |-> ((i + k) % MaxIter) + 1,
     quality_threshold |-> IF (i + j) % 2 = 0 THEN 60 ELSE 80]

\* NumRuns requests to /analysis/evaluate are served at the same time
InitRequests ==
    /\ call = "evaluate_analysis"
    /\ max_iterations = DefaultMaxIterations
    /\ min_quality_threshold = DefaultThreshold
    /\ \E k \in 0..(MaxIter - 1) : \E j \in 0..1 :
          inputs = [i \in 1..NumRuns |-> RequestOf(i, k, j)]
    /\ InitTasks

Init == InitRun \/ InitBatch \/ InitRouting \/ InitRequests

NextRun ==
    \/ \E r \in Tasks : Begin(r)
    \/ \E r \in Tasks : \E text \in JudgmentTexts(call) : EvalReturn(r, text)
    \/ \E r \in Tasks : EvalFail(r)
    \/ \E r \in Tasks : \E text \in OptimizerTexts(call) : OptReturn(r, text)
    \/ \E r \in Tasks : OptFail(r)
    \/ \E r \in Tasks : Cancel(r)

NextRouting ==
    \/ \E i \in Tasks : RouteBegin(i)
    \/ \E i \in Tasks : \E text \in RoutingTexts : RouteReturn(i, text)
    \/ \E i \in Tasks : RouteFail(i)
    \/ \E i \in Tasks : \E text \in SpecialistTexts : AnalyzeReturn(i, text)
    \/ \E i \in Tasks : AnalyzeFail(i)

Next == NextRun \/ BatchReturn \/ NextRouting \/ RoutingBatchReturn

Spec == Init /\ [][Next]_vars

\* One run of process_with_evaluation under a scheduler that resumes the
\* coroutine whenever its oracle call has ended (the asyncio event loop runs
\* every task that is ready), over the answers that decide how a run ends.
LiveJudgmentTexts ==
    {"not json at all", "{\"overall_score\": 9}", "{\"overall_score\": 5}", "[1, 2]"}

LiveOptimizerTexts ==
    {"An improved analysis.", "{\"symbol\": \"AAPL\", \"analysis\": \"v1\"}"}

NextLive ==
    \/ \E r \in Tasks : Begin(r)
    \/ \E r \in Tasks : \E text \in LiveJudgmentTexts : EvalReturn(r, text)
    \/ \E r \in Tasks : EvalFail(r)
    \/ \E r \in Tasks : \E text \in LiveOptimizerTexts : OptReturn(r, text)
    \/ \E r \in Tasks : OptFail(r)

SpecLive == InitRun /\ [][NextLive]_vars /\ WF_vars(NextLive)

---------------------------------------------------------------------------
(* process_news on one list of articles. *)

NewsInputs ==
    {<<>>, <<[title |-> Str("Fed holds rates")]>>,
     <<[title |-> Str("Fed holds rates")], [title |-> Str("AAPL beats")]>>}

\* what a chain of the first four stages may answer
StageTexts ==
    {"{\"valid_articles\": []}",
     "Here you go: {\"valid_articles\": []}",
     "{\"valid_articles\": []} {\"note\": \"x\"}",
     "{\"valid_articles\": 7}",
     "{\"valid_articles\": 7.5}",
     "{\"error\": \"none\"}",
     "{\"analysis\": ",
     "not json at all"}

SummaryTexts == {"Markets were calm.", "{\"valid_articles\": []}"}

InitNews ==
    /\ call = "process_news"
    /\ max_iterations = DefaultMaxIterations
    /\ min_quality_threshold = DefaultThreshold
    /\ inputs \in {<<raw_news_data>> : raw_news_data \in NewsInputs}
    /\ InitTasks

NextNews ==
    \/ NewsBegin
    \/ \E text \in StageTexts : StageReturn(text)
    \/ \E text \in SummaryTexts : SummaryReturn(text)
    \/ StageFail

SpecNews == InitNews /\ [][NextNews]_vars

---------------------------------------------------------------------------
(* research_stock on one symbol, under a scheduler that resumes the graph *)
(* whenever the oracle call of its node has ended.                       *)

PlanTexts ==
    {"1. Read filings\n- Check news\n", "* 10K", "No list.",
     "\f² Compare peers"}

AnalysisTexts == {"Buy."}

AssessmentTexts ==
    {"Score 8", "Score: Below 7", "INCOMPLETE", "It needs improvement."}

ReportTexts == {"Report."}

MemoryTexts == {"Learned."}

InitResearch ==
    /\ call = "research_stock"
    /\ max_iterations = DefaultMaxIterations
    /\ min_quality_threshold = DefaultThreshold
    /\ inputs \in {<<"AAPL">>, <<"MSFT">>}
    /\ InitTasks

NextResearch ==
    \/ ResearchBegin
    \/ ResearchFail
    \/ \E text \in PlanTexts : _plan_research(text)
    \/ _collect_data
    \/ \E text \in AnalysisTexts : _analyze_data(text)
    \/ \E text \in AssessmentTexts : _assess_quality(text)
    \/ \E text \in ReportTexts : _generate_report(text)
    \/ \E text \in MemoryTexts : _update_memory(text)

SpecResearch == InitResearch /\ [][NextResearch]_vars /\ WF_vars(NextResearch)

---------------------------------------------------------------------------
(* routers/analysis.py: POST /analysis/batch/route-content.  The items of a
   request are alike, so the coroutines of process_multiple_content are
   counted by where they are, not told apart. *)

\* len(content_list) > 20
BatchLimit == 20

\* the longest content_list of a request
MaxItems == 22

ContentLists == {[i \in 1..n |-> EmptyDict] : n \in 0..MaxItems}

\* HTTPException(status_code=..., detail=...), a subclass of Exception
HTTPException(status_code, detail) ==
    [status_code |-> status_code, detail |-> detail]

\* str(e) of an HTTPException: its status code, a colon, its detail
ExceptionText(e) ==
    (CASE e.status_code = 400 -> "400" [] e.status_code = 503 -> "503")
        \o ": " \o e.detail.s

\* Lines 239-247: except Exception as e, which an HTTPException raised in
\* the try block reaches too; the handler raises a 500 with str(e)
InternalError(e) == HTTPException(500, [error |-> Str(ExceptionText(e))])

BatchRouting == call = "batch_route_content"

\* Lines 232-238: the dict the handler returns.  The list of results is
\* given by its numbers of entries.
BatchRouteResponse(content_list, d) ==
    [success |-> TRUE,
     processed_count |-> Len(content_list),
     results |-> [success_true |-> d.succeeded, success_false |-> d.failed]]

\* Lines 207-228: the handler starts; it raises 503 without a workflow and
\* 400 for more than 20 items, both inside the try block, or calls
\* process_multiple_content (routing.py lines 429-432).  gather of no
\* coroutine is done at once and the handler returns without suspending;
\* else gather makes a task of every process_content, none of which has
\* started, and the handler is suspended.
BatchRouteBegin ==
    /\ BatchRouting
    /\ pc[1] = "start"
    /\ IF routing_workflow = "None"
       THEN /\ End(1, "raised", InternalError(HTTPException(503,
                      Str("Content routing workflow not available"))))
            /\ UNCHANGED dispatched
       ELSE IF Len(inputs) > BatchLimit
       THEN /\ End(1, "raised", InternalError(HTTPException(400,
                      Str("Maximum 20 content items allowed per batch request"))))
            /\ UNCHANGED dispatched
       ELSE IF Len(inputs) = 0
       THEN /\ End(1, "done", BatchRouteResponse(inputs, NoDispatch))
            /\ UNCHANGED dispatched
       ELSE /\ pc' = [pc EXCEPT ![1] = "gathering"]
            /\ dispatched' = [NoDispatch EXCEPT !.pending = Len(inputs)]
            /\ UNCHANGED <<ret, completed>>
    /\ UNCHANGED <<criteria, routing_workflow, chain_results, state, path,
                   call, max_iterations, min_quality_threshold, inputs,
                   iteration, heap, current_analysis, workflow_history,
                   iteration_record, oracle_calls, batch_results,
                   routing_decision>>

\* what a step of one item leaves alone
ItemFrame ==
    UNCHANGED <<criteria, routing_workflow, chain_results, state, path, call,
                max_iterations, min_quality_threshold, inputs, iteration,
                heap, current_analysis, workflow_history, iteration_record,
                oracle_calls, batch_results, routing_decision, pc, ret,
                completed>>

\* routing.py lines 383-394: the event loop runs the first step of an
\* item's task: process_content up to its routing oracle call.
ItemStart ==
    /\ BatchRouting
    /\ pc[1] = "gathering"
    /\ dispatched.pending > 0
    /\ dispatched' = [dispatched EXCEPT !.pending = @ - 1,
                                        !.routing = @ + 1,
                                        !.calls_started = @ + 1]
    /\ ItemFrame

\* every task of the batch has taken its first step: the loop runs the
\* callbacks in the order they were queued, and the first steps were queued
\* by gather before any oracle call was made
AllStarted == dispatched.pending = 0

\* routing.py lines 394-404: an item's routing call is answered with a
\* decision (the fallback one included) and its specialist call starts.
ItemRouted ==
    /\ BatchRouting
    /\ pc[1] = "gathering"
    /\ AllStarted
    /\ dispatched.routing > 0
    /\ dispatched' = [dispatched EXCEPT !.routing = @ - 1,
                                        !.analyzing = @ + 1,
                                        !.calls_started = @ + 1]
    /\ ItemFrame

\* routing.py lines 421-427: an item's routing call raises, or its answer
\* decodes to something that is no dict; process_content returns an entry
\* with success false.
ItemRouteFail ==
    /\ BatchRouting
    /\ pc[1] = "gathering"
    /\ AllStarted
    /\ dispatched.routing > 0
    /\ dispatched' = [dispatched EXCEPT !.routing = @ - 1, !.failed = @ + 1]
    /\ ItemFrame

\* routing.py lines 406-419: an item's specialist call is answered;
\* process_content returns an entry with success true.
ItemAnalyzed ==
    /\ BatchRouting
    /\ pc[1] = "gathering"
    /\ AllStarted
    /\ dispatched.analyzing > 0
    /\ dispatched' = [dispatched EXCEPT !.analyzing = @ - 1,
                                        !.succeeded = @ + 1]
    /\ ItemFrame

\* routing.py lines 421-427: an item's specialist call raises.
ItemAnalyzeFail ==
    /\ BatchRouting
    /\ pc[1] = "gathering"
    /\ AllStarted
    /\ dispatched.analyzing > 0
    /\ dispatched' = [dispatched EXCEPT !.analyzing = @ - 1, !.failed = @ + 1]
    /\ ItemFrame

\* Lines 228-238: gather has every entry; the handler returns.
BatchRouteReturn ==
    /\ BatchRouting
    /\ pc[1] = "gathering"
    /\ AllStarted
    /\ dispatched.routing = 0
    /\ dispatched.analyzing = 0
    /\ End(1, "done", BatchRouteResponse(inputs, dispatched))
    /\ UNCHANGED <<criteria, routing_workflow, dispatched, chain_results,
                   state, path, call, max_iterations, min_quality_threshold,
                   inputs, iteration, heap, current_analysis,
                   workflow_history, iteration_record, oracle_calls,
                   batch_results, routing_decision>>

\* a request to the endpoint; the module's workflow was constructed or,
\* when its construction raised, is None (lines 32-40)
InitBatchRoute ==
    /\ call = "batch_route_content"
    /\ inputs \in ContentLists
    /\ routing_workflow \in {"RoutingWorkflow", "None"}
    /\ dispatched = NoDispatch
    /\ criteria = CRITERIA
    /\ max_iterations = DefaultMaxIterations
    /\ min_quality_threshold = DefaultThreshold
    /\ pc = <<"start">>
    /\ ret = <<Pending>>
    /\ iteration = <<>>
    /\ heap = <<>>
    /\ current_analysis = <<>>
    /\ workflow_history = <<>>
    /\ iteration_record = <<>>
    /\ oracle_calls = <<>>
    /\ routing_decision = <<>>
    /\ completed = <<>>
    /\ batch_results = <<>>
    /\ chain_results = EmptyDict
    /\ state = EmptyDict
    /\ path = <<>>

NextBatchRoute ==
    \/ BatchRouteBegin
    \/ ItemStart
    \/ ItemRouted
    \/ ItemRouteFail
    \/ ItemAnalyzed
    \/ ItemAnalyzeFail
    \/ BatchRouteReturn

SpecBatchRoute == InitBatchRoute /\ [][NextBatchRoute]_vars

---------------------------------------------------------------------------
(* Properties. *)

\* the evaluation is the fallback one (the degraded marking of the code)
Degraded(evaluation) == evaluation.evaluator = Str("QualityEvaluator (fallback)")

\* a judgment text that decodes but that the run cannot handle: not an
\* object, or an object whose overall_score is no number
Unhandled(text) ==
    LET p == JsonLoads(Content(text))
    IN p.ok /\ (p.ty # "dict"
                \/ DictGet(p.d, "overall_score", Num(DefaultScore)).ty # "num")

LastCall(r) == oracle_calls[r][Len(oracle_calls[r])]

\* the replies of the evaluate calls of run r, in order
RECURSIVE JudgmentsOf(_)
JudgmentsOf(calls) ==
    IF calls = <<>> THEN <<>>
    ELSE IF Head(calls).kind = "evaluate" /\ Head(calls).reply # InFlight
    THEN <<Head(calls).reply>> \o JudgmentsOf(Tail(calls))
    ELSE JudgmentsOf(Tail(calls))

C1_Bounded(r) ==
    /\ Len(workflow_history[r]) <= max_iterations
    /\ pc[r] = "done" =>
          /\ ret[r].iterations_performed <= max_iterations
          /\ \/ ret[r].quality_threshold_met
             \/ ret[r].iterations_performed = max_iterations
    /\ pc[r] = "raised" => LastCall(r).reply = Failed

\* C1: with max_iterations >= 1, a run never holds more than max_iterations
\* records, it ends, and when all its oracle calls returned, whatever their
\* texts, it ends returned, with the threshold met or with exactly
\* max_iterations iterations performed.
C1_BoundedTermination ==
    /\ [](max_iterations >= 1 => \A r \in Tasks : C1_Bounded(r))
    /\ <>(max_iterations >= 1 => \A r \in Tasks : Ended(r))

---------------------------------------------------------------------------

Returned(r) == Refining /\ pc[r] = "done"

Meets(rec) == rec.quality_score.n >= min_quality_threshold

\* the position of the first record of hist that meets the threshold
FirstMeeting(hist) ==
    CHOOSE k \in 1..Len(hist) :
        Meets(hist[k]) /\ \A j \in 1..(k - 1) : ~Meets(hist[j])

\* C2: in a returned run with a record whose quality_score is at least the
\* threshold, quality_threshold_met is true, iterations_performed is the
\* position of the first such record, and that record's evaluation was the
\* run's last oracle call.
C2_ThresholdCorrectness ==
    \A r \in Tasks :
        Returned(r) /\ (\E k \in 1..Len(ret[r].workflow_history) :
                            Meets(ret[r].workflow_history[k]))
        => LET first == FirstMeeting(ret[r].workflow_history)
           IN /\ ret[r].quality_threshold_met
              /\ ret[r].iterations_performed = first
              /\ Len(ret[r].workflow_history) = first
              /\ Len(oracle_calls[r]) = 2 * first - 1
              /\ LastCall(r).kind = "evaluate"

\* C2: a run returned with the threshold met in its second iteration.
C2_Witness ==
    /\ Returned(1)
    /\ ret[1].iterations_performed = 2
    /\ ret[1].quality_threshold_met
    /\ ~Meets(ret[1].workflow_history[1])
    /\ Meets(ret[1].workflow_history[2])
    /\ max_iterations = 3

\* C3: a returned run whose records all score below the threshold performed
\* exactly max_iterations iterations, holds max_iterations records, reports
\* quality_threshold_met false, and its last record has no optimization.
C3_BudgetExhaustion ==
    \A r \in Tasks :
        Returned(r) /\ (\A k \in 1..Len(ret[r].workflow_history) :
                            ~Meets(ret[r].workflow_history[k]))
        => /\ ret[r].iterations_performed = max_iterations
           /\ Len(ret[r].workflow_history) = max_iterations
           /\ ~ret[r].quality_threshold_met
           /\ ret[r].workflow_history[max_iterations].optimization = None

\* C3: max_iterations 3, threshold 8.0, every score 5.0: the run returned.
C3_Witness ==
    /\ Returned(1)
    /\ max_iterations = 3
    /\ min_quality_threshold = 80
    /\ Len(ret[1].workflow_history) = 3
    /\ \A k \in 1..3 : ret[1].workflow_history[k].quality_score = Num(50)

\* the score the run reads from a judgment it can handle
ScoreOf(text) ==
    DictGet(evaluate_analysis(text).value, "overall_score", Num(DefaultScore))

IsText(reply) == reply # InFlight /\ reply # Failed /\ reply # Cancelled

\* the evaluation of call c returned a score that asks for an optimization
AsksOptimization(c) ==
    /\ c.kind = "evaluate"
    /\ IsText(c.reply)
    /\ ~Unhandled(c.reply)
    /\ ScoreOf(c.reply).n < min_quality_threshold
    /\ c.iteration < max_iterations - 1

OptimizeCalls(calls) == {p \in DOMAIN calls : calls[p].kind = "optimize"}

\* C4: the optimizer is called in an iteration exactly when the iteration's
\* score is below the threshold and its index is below max_iterations - 1;
\* an optimization that returned is followed by an evaluation; a returned
\* run made iterations_performed - 1 optimizer calls and only its last
\* record has no optimization.
C4_NoOptimizationOnLastIteration ==
    \A r \in Tasks : Refining =>
        LET calls == oracle_calls[r]
        IN /\ \A p \in DOMAIN calls :
                 /\ calls[p].kind = "optimize" =>
                       /\ p > 1
                       /\ AsksOptimization(calls[p - 1])
                       /\ calls[p - 1].iteration = calls[p].iteration
                 /\ AsksOptimization(calls[p]) =>
                       /\ p < Len(calls)
                       /\ calls[p + 1].kind = "optimize"
                       /\ calls[p + 1].iteration = calls[p].iteration
                 /\ calls[p].kind = "optimize" /\ IsText(calls[p].reply) =>
                       /\ p < Len(calls)
                       /\ calls[p + 1].kind = "evaluate"
           /\ pc[r] = "done" =>
                 /\ Cardinality(OptimizeCalls(calls)) = ret[r].iterations_performed - 1
                 /\ \A k \in 1..Len(ret[r].workflow_history) :
                       ret[r].workflow_history[k].optimization = None
                       <=> k = Len(ret[r].workflow_history)

\* C4: a run returned after three iterations and two optimizer calls.
C4_Witness ==
    /\ Returned(1)
    /\ max_iterations = 3
    /\ ret[1].iterations_performed = 3
    /\ Cardinality(OptimizeCalls(oracle_calls[1])) = 2
    /\ ret[1].workflow_history[3].optimization = None

---------------------------------------------------------------------------

\* the record of iteration i (counted from 0) of run r: in the history, or
\* still in iteration_record while its optimization is awaited
RecordOf(r, i) ==
    IF i + 1 <= Len(workflow_history[r]) THEN workflow_history[r][i + 1]
    ELSE iteration_record[r]

Undecodable(text) == ~JsonLoads(Content(text)).ok

\* C5: an evaluation whose text does not decode gives the fallback result:
\* marked as fallback, overall_score 6.0 exactly, rating fair, the raw text
\* kept; and 6.0 is the score the run records for it.
C5_FallbackSafety ==
    \A r \in Tasks : Refining =>
        \A p \in DOMAIN oracle_calls[r] :
            LET c == oracle_calls[r][p]
            IN c.kind = "evaluate" /\ IsText(c.reply) /\ Undecodable(c.reply)
               => LET rec == RecordOf(r, c.iteration)
                  IN /\ rec.iteration = c.iteration + 1
                     /\ Degraded(rec.evaluation)
                     /\ DictGet(rec.evaluation, "overall_score", None) = Float(FallbackScore)
                     /\ DictGet(rec.evaluation, "overall_rating", None) = Str("fair")
                     /\ DictGet(rec.evaluation, "raw_response", None) = Str(c.reply)
                     /\ rec.quality_score = Float(FallbackScore)

\* C5: a judgment with a score of 9 inside prose was evaluated.
C5_Witness ==
    /\ call = "process_with_evaluation"
    /\ Len(workflow_history[1]) >= 1
    /\ workflow_history[1][1].evaluation.evaluator = Str("QualityEvaluator (fallback)")
    /\ workflow_history[1][1].evaluation.raw_response
          = Str("Evaluation: {\"overall_score\": 9}")
    /\ workflow_history[1][1].quality_score = Float(60)

\* C6: whatever text an evaluation returns, the run does not end by an
\* exception at that evaluation.
C6_ParsingNeverRaises ==
    \A r \in Tasks : Refining =>
        ~(/\ pc[r] = "raised"
          /\ oracle_calls[r] # <<>>
          /\ LastCall(r).kind = "evaluate"
          /\ IsText(LastCall(r).reply))

\* C7: a run one of whose oracle calls failed after a first record was
\* completed has returned a result with success false, the error, and the
\* records completed before the failure.
C7_PartialResultOnFailure ==
    \A r \in Tasks : Refining =>
        (oracle_calls[r] # <<>> /\ LastCall(r).reply = Failed
            /\ workflow_history[r] # <<>>
         => /\ pc[r] = "done"
            /\ ret[r].success = FALSE
            /\ "error" \in DOMAIN ret[r]
            /\ ret[r].workflow_history = workflow_history[r])

HasSuccess(entry, b) == "success" \in DOMAIN entry /\ entry.success = b

FailedRuns == {r \in Tasks : oracle_calls[r] # <<>> /\ LastCall(r).reply = Failed}

\* C8: when batch_process over two or more artifacts has returned and
\* exactly one run hit an oracle error, the list has one entry per artifact,
\* all but one with success true, and exactly one with success false and
\* the error.
C8_BatchIsolation ==
    call = "batch_process" /\ batch_results # <<>> /\ Len(inputs) >= 2
        /\ Cardinality(FailedRuns) = 1
    => /\ Len(batch_results) = Len(inputs)
       /\ Cardinality({i \in Tasks : HasSuccess(batch_results[i], TRUE)})
             = Len(inputs) - 1
       /\ Cardinality({i \in Tasks : HasSuccess(batch_results[i], FALSE)
                                      /\ "error" \in DOMAIN batch_results[i]}) = 1

\* the artifact a returned run evaluated first
FirstSnapshot(r) == heap[r][ret[r].workflow_history[1].analysis]

\* C9: a batch returns one entry per input, and entry i is the outcome of
\* the task made for input i (its return value, or the error it raised) in
\* whatever order the tasks ended; a refinement result at i starts from
\* input i, a routing result at i holds item i's routing decision.
C9_BatchOrdering ==
    batch_results # <<>> =>
        /\ Len(batch_results) = Len(inputs)
        /\ \A i \in Tasks :
              /\ IsRaised(ret[i]) => batch_results[i] = [error |-> ret[i].exception]
              /\ ~IsRaised(ret[i]) => batch_results[i] = ret[i]
              /\ HasSuccess(batch_results[i], TRUE) /\ Refining =>
                    FirstSnapshot(i).symbol = inputs[i].symbol
              /\ "routing_decision" \in DOMAIN batch_results[i] =>
                    batch_results[i].routing_decision = routing_decision[i]

\* C9: a batch of two returned whose second task ended first, one task
\* failing and the other not.
C9_Witness ==
    /\ batch_results # <<>>
    /\ completed = <<2, 1>>
    /\ batch_results[1] # batch_results[2]
    /\ \E i \in Tasks : "error" \in DOMAIN batch_results[i]
    /\ \E i \in Tasks : HasSuccess(batch_results[i], TRUE)

\* C10: once the router's text is back, what route_content returned is a
\* decision whose specialist is one of the SpecialistType values.
C10_RoutingTotality ==
    \A i \in Tasks :
        Routing /\ oracle_calls[i] # <<>> /\ IsText(oracle_calls[i][1].reply)
        => /\ routing_decision[i].ty = "dict"
           /\ "specialist" \in DOMAIN routing_decision[i].d
           /\ routing_decision[i].d.specialist.ty = "str"
           /\ routing_decision[i].d.specialist.s \in SpecialistType

---------------------------------------------------------------------------
(* Routing: fallback, unknown labels, failures. *)

\* the router's text of item i is back
Routed(i) == Routing /\ oracle_calls[i] # <<>> /\ IsText(oracle_calls[i][1].reply)

\* C11: when the router's text does not decode, route_content returns the
\* default decision (content_type unknown, specialist general_analyst,
\* confidence 0.5), a handler of the workflow is then called, and when that
\* handler's oracle call returns process_content returns success true with
\* that decision.
C11_RoutingFallback ==
    \A i \in Tasks :
        Routed(i) /\ Undecodable(oracle_calls[i][1].reply)
        => /\ routing_decision[i].ty = "dict"
           /\ routing_decision[i].d.content_type = Str("unknown")
           /\ routing_decision[i].d.specialist \in {Str("general_analyst"), Str("news_analyst")}
           /\ routing_decision[i].d.confidence = Float(5)
           /\ Len(oracle_calls[i]) = 2
           /\ oracle_calls[i][2].kind \in Specialists
           /\ IsText(oracle_calls[i][2].reply) =>
                 /\ pc[i] = "done"
                 /\ HasSuccess(ret[i], TRUE)
                 /\ ret[i].routing_decision = routing_decision[i]
                 /\ ret[i].specialist_analysis.specialist = Str(oracle_calls[i][2].kind)

\* C11: an item whose router text did not decode was analysed with success.
C11_Witness ==
    /\ Routing
    /\ pc[1] = "done"
    /\ oracle_calls[1][1].reply = "not json at all"
    /\ HasSuccess(ret[1], TRUE)
    /\ ret[1].specialist_analysis.specialist = Str("news_analyst")

\* the decision of item i decoded to an object that names, as a string, a
\* specialist the workflow has no handler for
NamesUnknownSpecialist(i) ==
    /\ Routed(i)
    /\ ~Undecodable(oracle_calls[i][1].reply)
    /\ routing_decision[i].ty = "dict"
    /\ "specialist" \in DOMAIN routing_decision[i].d
    /\ routing_decision[i].d.specialist.ty = "str"
    /\ routing_decision[i].d.specialist.s \notin Specialists

\* C12: a decoded decision that names a specialist without a handler ends
\* the dispatch with an error outcome that is not a success, and no
\* specialist is called.
C12_UnknownSpecialistRejected ==
    \A i \in Tasks :
        NamesUnknownSpecialist(i)
        => /\ Len(oracle_calls[i]) = 1
           /\ pc[i] = "done"
           /\ "error" \in DOMAIN ret[i]
           /\ ~HasSuccess(ret[i], TRUE)

\* C13: process_content never ends by an exception, an item whose oracle
\* call failed returns success false with the error, and a returned batch of
\* two or more items in which exactly one item's oracle call failed has
\* success true in all other entries and success false in exactly one.
C13_DispatchIsolation ==
    Routing =>
        /\ \A i \in Tasks :
              /\ ~IsRaised(ret[i])
              /\ i \in FailedRuns =>
                    /\ pc[i] = "done"
                    /\ HasSuccess(ret[i], FALSE)
                    /\ "error" \in DOMAIN ret[i]
        /\ (batch_results # <<>> /\ Len(inputs) >= 2 /\ Cardinality(FailedRuns) = 1)
           => /\ Cardinality({i \in Tasks : HasSuccess(batch_results[i], TRUE)})
                    = Len(inputs) - 1
              /\ Cardinality({i \in Tasks : HasSuccess(batch_results[i], FALSE)}) = 1

---------------------------------------------------------------------------
(* The artifact across iterations. *)

\* the artifact a record of run r refers to, as it is now
Snapshot(r, rec) == heap[r][rec.analysis]

\* C14: a record that is in the history stays in its place with all its
\* items, and the artifact it refers to keeps its value in every later step
\* of the run.
C14_RecordsImmutable ==
    [][\A r \in Tasks : Refining =>
          \A k \in 1..Len(workflow_history[r]) :
              /\ k <= Len(workflow_history'[r])
              /\ workflow_history'[r][k] = workflow_history[r][k]
              /\ heap'[r][workflow_history[r][k].analysis]
                    = Snapshot(r, workflow_history[r][k])]_vars

\* the optimizer's text decodes to an object
DecodesToObject(text) ==
    JsonLoads(Content(text)).ok /\ JsonLoads(Content(text)).ty = "dict"

\* the artifact the three tiers give for the artifact prev and the text
Merged(prev, text) ==
    IF DecodesToObject(text) THEN JsonLoads(Content(text)).d
    ELSE IF "analysis" \in DOMAIN prev
    THEN [k \in DOMAIN prev |-> IF k = "analysis" THEN Str(text) ELSE prev[k]]
    ELSE [analysis |-> Str(text)]

\* C15: the evaluation that follows an optimization is given the decoded
\* object when the optimizer's text decodes to one; else the artifact the
\* optimizer was given with only its "analysis" item replaced by the text,
\* when it has that item; else a dict with the text as its only item.  Text
\* that starts with a brace and does not decode is treated as text.
C15_ThreeTierMerge ==
    \A r \in Tasks : Refining =>
        \A p \in DOMAIN oracle_calls[r] :
            LET c == oracle_calls[r][p]
            IN c.kind = "optimize" /\ IsText(c.reply)
               => /\ p < Len(oracle_calls[r])
                  /\ oracle_calls[r][p + 1].kind = "evaluate"
                  /\ oracle_calls[r][p + 1].artifact = Merged(c.artifact, c.reply)

\* C15: one run merged text into an artifact with other items, then an
\* object without an "analysis" item, and a later run state holds both.
C15_Witness ==
    /\ call = "process_with_evaluation"
    /\ Len(oracle_calls[1]) >= 5
    /\ oracle_calls[1][2].reply = "{\"analysis\": "
    /\ oracle_calls[1][3].artifact
          = [symbol |-> Str("AAPL"), analysis |-> Str("{\"analysis\": ")]
    /\ oracle_calls[1][4].reply = " {\"summary\": \"v2\"} "
    /\ oracle_calls[1][5].artifact = [summary |-> Str("v2")]

---------------------------------------------------------------------------
(* Configuration. *)

\* C16: a workflow whose max_iterations is below 1 does not get to run: no
\* coroutine of process_with_evaluation leaves its start with such a
\* configuration, so none ends by an error that the configuration causes.
C16_ConfigurationChecked ==
    \A r \in Tasks :
        Running /\ Instance(r).max_iterations < 1 => pc[r] = "start"

\* the metrics of the criterion table
Metrics ==
    {"accuracy", "completeness", "relevance", "actionability", "clarity",
     "timeliness", "risk_assessment", "data_quality"}

RECURSIVE SumOver(_, _)
SumOver(f, S) ==
    IF S = {} THEN 0
    ELSE LET m == CHOOSE x \in S : TRUE IN f[m] + SumOver(f, S \ {m})

\* C17: the table has a weight for each of the eight metrics, the weights
\* sum to 100 hundredths, each lies above 0 and at most at 100, and no step
\* of any operation changes the table.
C17_WeightInvariant ==
    /\ [](/\ DOMAIN criteria = Metrics
          /\ SumOver(criteria, Metrics) = 100
          /\ \A m \in Metrics : criteria[m] > 0 /\ criteria[m] <= 100)
    /\ [][criteria' = criteria]_vars

\* C17: a batch of refinements has returned and the table is as it was made.
C17_Witness ==
    /\ call = "batch_process"
    /\ batch_results # <<>>
    /\ \E r \in Tasks : Len(oracle_calls[r]) >= 3
    /\ criteria.accuracy = 20
    /\ SumOver(criteria, DOMAIN criteria) = 100

---------------------------------------------------------------------------
(* Order of the oracle calls of a run. *)

InFlightCalls(calls) == {p \in DOMAIN calls : calls[p].reply = InFlight}

\* C18: the oracle calls of a run are made one after the other: a call is
\* made only when the one before it has returned, at most one is in flight,
\* evaluations and optimizations alternate (evaluate i, optimize i, evaluate
\* i + 1), the optimization of an iteration is given the artifact that was
\* evaluated in it, and the next evaluation the artifact merged from it.
C18_StrictSequencing ==
    \A r \in Tasks : Running =>
        LET calls == oracle_calls[r]
        IN /\ Cardinality(InFlightCalls(calls)) <= 1
           /\ (pc[r] \in {"evaluating", "optimizing"})
                 <=> (calls # <<>> /\ calls[Len(calls)].reply = InFlight)
           /\ \A p \in DOMAIN calls :
                 /\ p < Len(calls) => IsText(calls[p].reply)
                 /\ calls[p].kind = IF p % 2 = 1 THEN "evaluate" ELSE "optimize"
                 /\ calls[p].iteration = (p - 1) \div 2
                 /\ p % 2 = 0 => calls[p].artifact = calls[p - 1].artifact
                 /\ (p % 2 = 1 /\ p > 1) =>
                       calls[p].artifact
                          = Merged(calls[p - 1].artifact, calls[p - 1].reply)

\* C18: the evaluation of the third iteration is in flight, after two
\* optimizations that each changed the artifact.
C18_Witness ==
    /\ Running
    /\ Len(oracle_calls[1]) = 5
    /\ pc[1] = "evaluating"
    /\ oracle_calls[1][5].reply = InFlight
    /\ oracle_calls[1][3].artifact # oracle_calls[1][1].artifact
    /\ oracle_calls[1][5].artifact # oracle_calls[1][3].artifact

---------------------------------------------------------------------------
(* A run on its own: process_with_evaluation as a function of the replies *)
(* its oracle calls get, in the order of the calls.                       *)

RunState(p, i, h, cur, hist, rec, result) ==
    [pc |-> p, iteration |-> i, heap |-> h, current |-> cur, history |-> hist,
     record |-> rec, ret |-> result]

\* lines 270-278: up to the first evaluation call
StartRun(analysis, maxit) ==
    LET c == CopyInput(<<analysis>>)
    IN IF RangeHasNext(-1, maxit)
       THEN RunState("evaluating", 0, c.heap, c.current, <<>>, NoRecord, Pending)
       ELSE RunState("raised", 0, c.heap, c.current, <<>>, NoRecord,
                     Raised("IndexError"))

\* lines 278-305 and 328-360: from an evaluation's text to the next call
AfterEvaluation(s, text, maxit, threshold) ==
    LET ev == evaluate_analysis(text)
        score == DictGet(ev.value, "overall_score", Num(DefaultScore))
        rec == [iteration |-> s.iteration + 1, analysis |-> s.current,
                evaluation |-> ev.value, quality_score |-> score]
        met == Append(s.history, Completed(rec, None, TRUE))
        last == Append(s.history, Completed(rec, None, FALSE))
    IN IF ev.raised # ""
       THEN RunState("raised", s.iteration, s.heap, s.current, s.history,
                     s.record, Raised(ev.raised))
       ELSE IF score.ty # "num"
       THEN RunState("raised", s.iteration, s.heap, s.current, s.history, rec,
                     Raised("TypeError"))
       ELSE IF ThresholdMet(score, threshold)
       THEN RunState("done", s.iteration, s.heap, s.current, met, rec,
                     WorkflowResult(met, s.current, threshold, maxit))
       ELSE IF NotFinalIteration(s.iteration, maxit)
       THEN RunState("optimizing", s.iteration, s.heap, s.current, s.history,
                     rec, Pending)
       ELSE RunState("done", s.iteration, s.heap, s.current, last, rec,
                     WorkflowResult(last, s.current, threshold, maxit))

\* lines 303-333 and 273-278: from an optimization's text to the next call
AfterOptimization(s, text, maxit, threshold) ==
    LET optimization == optimize_analysis(s.record.evaluation, text)
        m == MergeOptimizedAnalysis(s.heap, s.current, text)
        hist == Append(s.history, Completed(s.record, optimization, FALSE))
    IN IF RangeHasNext(s.iteration, maxit)
       THEN RunState("evaluating", s.iteration + 1, m.heap, m.current, hist,
                     s.record, Pending)
       ELSE RunState("done", s.iteration, m.heap, m.current, hist, s.record,
                     WorkflowResult(hist, m.current, threshold, maxit))

\* the coroutine is resumed with the reply of the call it awaits
Resume(s, reply, maxit, threshold) ==
    IF reply = Failed
    THEN RunState("raised", s.iteration, s.heap, s.current, s.history, s.record,
                  Raised("OracleError"))
    ELSE IF reply = Cancelled
    THEN RunState("raised", s.iteration, s.heap, s.current, s.history, s.record,
                  Raised("CancelledError"))
    ELSE IF s.pc = "evaluating" THEN AfterEvaluation(s, reply, maxit, threshold)
    ELSE AfterOptimization(s, reply, maxit, threshold)

RECURSIVE Replay(_, _, _, _)
Replay(s, replies, maxit, threshold) ==
    IF replies = <<>> \/ s.pc \notin {"evaluating", "optimizing"} THEN s
    ELSE Replay(Resume(s, Head(replies), maxit, threshold), Tail(replies),
                maxit, threshold)

\* process_with_evaluation(analysis) of a workflow made with maxit and
\* threshold, run by itself and given these replies
RunAlone(analysis, maxit, threshold, replies) ==
    Replay(StartRun(analysis, maxit), replies, maxit, threshold)

\* the replies the calls of a run have got so far
RepliesOf(calls) ==
    LET n == IF calls # <<>> /\ calls[Len(calls)].reply = InFlight
             THEN Len(calls) - 1 ELSE Len(calls)
    IN [p \in 1..n |-> calls[p].reply]

\* the state of task r as one value
TaskState(r) ==
    RunState(pc[r], iteration[r], heap[r], current_analysis[r],
             workflow_history[r], iteration_record[r], ret[r])

\* the configuration task r was given: that of its request, or that of the
\* workflow the batch was called on
OwnMaxIterations(r) ==
    IF call = "evaluate_analysis" THEN inputs[r].max_iterations ELSE max_iterations

OwnThreshold(r) ==
    IF call = "evaluate_analysis" THEN inputs[r].quality_threshold
    ELSE min_quality_threshold

\* C19: whatever the interleaving, every run that has begun is in the state
\* (position, iteration, objects, artifact, history, result) the same run
\* has when it runs alone with its own configuration and the same replies;
\* no step changes the state of two runs, and the configuration and the
\* inputs are changed by no step.
C19_RunIndependence ==
    /\ [](\A r \in Tasks :
            Running /\ pc[r] # "start"
            => TaskState(r) = RunAlone(AnalysisArg(r), OwnMaxIterations(r),
                                       OwnThreshold(r), RepliesOf(oracle_calls[r])))
    /\ [][/\ \A r, q \in Tasks :
               Running /\ r # q
               => TaskState(r)' = TaskState(r) \/ TaskState(q)' = TaskState(q)
          /\ inputs' = inputs
          /\ max_iterations' = max_iterations
          /\ min_quality_threshold' = min_quality_threshold]_vars

\* C19: two requests with different max_iterations and thresholds were
\* served at the same time; the second ended first, the first went on to a
\* second iteration and both returned.
C19_Witness ==
    /\ call = "evaluate_analysis"
    /\ completed = <<2, 1>>
    /\ inputs[1].max_iterations # inputs[2].max_iterations
    /\ inputs[1].quality_threshold # inputs[2].quality_threshold
    /\ pc[1] = "done" /\ pc[2] = "done"
    /\ ret[1].iterations_performed = 2
    /\ ret[1].workflow_summary.max_iterations = inputs[1].max_iterations
    /\ ret[2].workflow_summary.threshold = inputs[2].quality_threshold

---------------------------------------------------------------------------
(* The history of a run. *)

\* the evaluations of a run that returned text
CompletedEvaluations(calls) ==
    {p \in DOMAIN calls : calls[p].kind = "evaluate" /\ IsText(calls[p].reply)}

\* C20: the history of a run never holds more records than max_iterations;
\* its k-th record is the record of the k-th completed evaluation, so the
\* history holds one record for each completed evaluation but the one whose
\* record is not appended yet; a step leaves the history as it is or appends
\* one record to it; and a returned result reports the length of the
\* history as iterations_performed.
C20_HistoryBookkeeping ==
    /\ [](\A r \in Tasks : Running =>
            LET hist == workflow_history[r]
                evals == Cardinality(CompletedEvaluations(oracle_calls[r]))
            IN /\ Len(hist) >= 0
               /\ Len(hist) <= Instance(r).max_iterations
               /\ Len(hist) <= evals
               /\ evals <= Len(hist) + 1
               /\ \A k \in 1..Len(hist) :
                     /\ hist[k].iteration = k
                     /\ IsText(oracle_calls[r][2 * k - 1].reply)
                     /\ hist[k].evaluation
                           = evaluate_analysis(oracle_calls[r][2 * k - 1].reply).value
               /\ pc[r] = "done" =>
                     /\ evals = Len(hist)
                     /\ ret[r].iterations_performed = Len(hist)
                     /\ ret[r].workflow_history = hist)
    /\ [][\A r \in Tasks : Running =>
             \/ workflow_history'[r] = workflow_history[r]
             \/ /\ Len(workflow_history'[r]) = Len(workflow_history[r]) + 1
                /\ SubSeq(workflow_history'[r], 1, Len(workflow_history[r]))
                      = workflow_history[r]]_vars

\* C20: a second evaluation has returned and its optimization is awaited:
\* the history holds the first record only.
C20_Witness ==
    /\ Running
    /\ pc[1] = "optimizing"
    /\ Len(oracle_calls[1]) = 4
    /\ Len(workflow_history[1]) = 1
    /\ iteration_record[1].iteration = 2
    /\ Instance(1).max_iterations = 3

---------------------------------------------------------------------------
(* Scores. *)

\* the overall_score of an evaluation, as the run reads it
OverallScore(evaluation) == DictGet(evaluation, "overall_score", Num(DefaultScore))

\* C21: the overall_score of every evaluation in a run's history, and of
\* the final_evaluation of a returned run, lies between 0 and 10 (0 and 100
\* tenths).
C21_ScoreRange ==
    \A r \in Tasks : Running =>
        /\ \A k \in 1..Len(workflow_history[r]) :
              /\ OverallScore(workflow_history[r][k].evaluation).n >= 0
              /\ OverallScore(workflow_history[r][k].evaluation).n <= 100
        /\ pc[r] = "done" =>
              /\ OverallScore(ret[r].final_evaluation).n >= 0
              /\ OverallScore(ret[r].final_evaluation).n <= 100

---------------------------------------------------------------------------
(* Batches and cancellation. *)

\* the tasks whose oracle call is in flight
AwaitingOracle ==
    {r \in Tasks : oracle_calls[r] # <<>> /\ LastCall(r).reply = InFlight}

\* C25: in a batch of two or more elements the oracle calls in flight at
\* one time are fewer than the elements: their number is held below a limit
\* that the size of the batch does not set.
C25_BoundedFanOut ==
    (call \in {"batch_process", "process_multiple_content"} /\ Len(inputs) >= 2)
    => Cardinality(AwaitingOracle) < Len(inputs)

\* C26: a run that was cancelled after it had completed a record has
\* returned a result marked as cancelled, not as a success, that holds the
\* records completed so far.
C26_Cancellation ==
    \A r \in Tasks : Running =>
        (oracle_calls[r] # <<>> /\ LastCall(r).reply = Cancelled
            /\ workflow_history[r] # <<>>
         => /\ pc[r] = "done"
            /\ "cancelled" \in DOMAIN ret[r]
            /\ ~HasSuccess(ret[r], TRUE)
            /\ ret[r].workflow_history = workflow_history[r])

---------------------------------------------------------------------------
(* The result of a returned run. *)

\* run r has returned its result dict
Finished(r) == Running /\ pc[r] = "done"

LastRecord(r) == workflow_history[r][Len(workflow_history[r])]

\* C27: in a returned run the last oracle call is an evaluation whose
\* input is final_analysis, final_evaluation is what that call's reply
\* evaluates to, and final_score is its overall_score.
C27_FinalArtifactJudged ==
    \A r \in Tasks : Finished(r) =>
        /\ LastCall(r).kind = "evaluate"
        /\ IsText(LastCall(r).reply)
        /\ heap[r][ret[r].final_analysis] = LastCall(r).artifact
        /\ ret[r].final_evaluation = evaluate_analysis(LastCall(r).reply).value
        /\ ret[r].final_score = ScoreOf(LastCall(r).reply)

\* C27: a run returned after an optimization whose output was evaluated
C27_Witness ==
    /\ Finished(1)
    /\ Len(oracle_calls[1]) = 3
    /\ oracle_calls[1][2].kind = "optimize"
    /\ heap[1][ret[1].final_analysis] # AnalysisArg(1)

\* C28: every evaluation after an optimization is given the newest
\* artifact, whatever the scores; a returned run's final_score is the
\* quality_score of its last record; and when the threshold was met no
\* record of the history has a higher quality_score.
C28_AlwaysLatest ==
    \A r \in Tasks :
        /\ Running =>
              \A p \in DOMAIN oracle_calls[r] :
                  (p > 1 /\ oracle_calls[r][p].kind = "evaluate")
                  => oracle_calls[r][p].artifact =
                        Merged(oracle_calls[r][p - 1].artifact,
                               oracle_calls[r][p - 1].reply)
        /\ Finished(r) =>
              /\ ret[r].final_score = LastRecord(r).quality_score
              /\ ret[r].quality_threshold_met =>
                    \A k \in 1..Len(workflow_history[r]) :
                        ret[r].final_score.n >= workflow_history[r][k].quality_score.n

\* C28: a run used up its budget and returned a final_score lower than the
\* quality_score of an earlier record
C28_Witness ==
    /\ Finished(1)
    /\ ~ret[1].quality_threshold_met
    /\ Len(workflow_history[1]) = Instance(1).max_iterations
    /\ \E k \in 1..Len(workflow_history[1]) :
          workflow_history[1][k].quality_score.n > ret[1].final_score.n

\* C29: in a returned run quality_threshold_met is the threshold_met of the
\* last record, every earlier record has threshold_met false, and a record
\* has threshold_met true exactly when its quality_score is at least the
\* run's threshold.
C29_ThresholdFlags ==
    \A r \in Tasks : Finished(r) =>
        /\ ret[r].quality_threshold_met = LastRecord(r).threshold_met
        /\ \A k \in 1..Len(workflow_history[r]) :
              /\ k < Len(workflow_history[r]) => ~workflow_history[r][k].threshold_met
              /\ workflow_history[r][k].threshold_met
                    <=> (workflow_history[r][k].quality_score.n
                            >= Instance(r).min_quality_threshold)

\* C29: a run returned on its second record, whose score is exactly the
\* threshold
C29_Witness ==
    /\ Finished(1)
    /\ Len(workflow_history[1]) = 2
    /\ LastRecord(1).threshold_met
    /\ LastRecord(1).quality_score.n = Instance(1).min_quality_threshold

\* C30: in a returned run the summary's initial_score is the quality_score
\* of the first record, its final_score is final_score and the
\* quality_score of the last record, improvement is their difference (0
\* for a run of one iteration), and threshold and max_iterations are the
\* run's configuration.
C30_SummaryConsistency ==
    \A r \in Tasks : Finished(r) =>
        LET summary == ret[r].workflow_summary
        IN /\ summary.initial_score = workflow_history[r][1].quality_score
           /\ summary.final_score = ret[r].final_score
           /\ summary.final_score = LastRecord(r).quality_score
           /\ summary.improvement
                 = ret[r].final_score.n - workflow_history[r][1].quality_score.n
           /\ Len(workflow_history[r]) = 1 => summary.improvement = 0
           /\ summary.threshold = Instance(r).min_quality_threshold
           /\ summary.max_iterations = Instance(r).max_iterations

\* C30: a run of several iterations returned with a positive improvement
C30_Witness ==
    /\ Finished(1)
    /\ Len(workflow_history[1]) >= 2
    /\ ret[1].workflow_summary.improvement > 0
    /\ ret[1].workflow_summary.initial_score.n > 0

---------------------------------------------------------------------------
(* The extraction rule of the parsers. *)

\* the first balanced brace-delimited part of a text: from the first "{"
\* to the "}" that closes it (nested objects lie inside the items); <<>>
\* when there is none
FirstBalanced(toks) ==
    LET opens == {i \in DOMAIN toks : toks[i].t = "{"}
        first == CHOOSE i \in opens : \A j \in opens : i <= j
        closes == {j \in DOMAIN toks : toks[j].t = "}" /\ j > first}
        close == CHOOSE j \in closes : \A i \in closes : j <= i
    IN IF opens = {} \/ closes = {} THEN <<>>
       ELSE SubSeq(toks, first, close)

\* the text has a first balanced part that decodes
Extracts(text) ==
    /\ FirstBalanced(Content(text)) # <<>>
    /\ JsonLoads(FirstBalanced(Content(text))).ok

\* C22: the data of every answered parsing stage of process_news is the
\* object that the first balanced brace-delimited part of the answer
\* decodes to; when there is no such part, or it does not decode, the
\* stage has failed with the raw text.
C22_ExtractionRule ==
    Chaining =>
        \A p \in DOMAIN oracle_calls[1] :
            LET c == oracle_calls[1][p]
                decoded == JsonLoads(FirstBalanced(Content(c.reply))).d
            IN (c.kind # "summarize" /\ IsText(c.reply))
               => IF Extracts(c.reply)
                  THEN "error" \notin DOMAIN decoded
                       => /\ StageKey(c.kind) \in DOMAIN chain_results
                          /\ chain_results[StageKey(c.kind)] = decoded
                  ELSE /\ pc[1] = "done"
                       /\ "details" \in DOMAIN ret[1]
                       /\ ret[1].details.raw_output = Str(c.reply)

---------------------------------------------------------------------------
(* The research pipeline. *)

\* the positions of the path at which the graph entered the node
Entries(node) == {i \in DOMAIN path : path[i] = node}

\* the oracle calls of the run that a node of the kind made
CallsOf(kind) == {p \in DOMAIN oracle_calls[1] : oracle_calls[1][p].kind = kind}

\* C23: the graph enters the planner first, then the collector, the
\* analyzer and the assessor; after the assessor the collector or the
\* reporter; after the reporter the memory updater, after which it enters
\* no node.  The reporter and the memory updater are entered at most once,
\* the reporter only after an assessor; a run that returned has entered
\* both, and the memory updater last.
C23_PipelineOrder ==
    Researching =>
        /\ path # <<>> => path[1] = "planner"
        /\ \A i \in DOMAIN path : i < Len(path) =>
              CASE path[i] = "planner" -> path[i + 1] = "data_collector"
                [] path[i] = "data_collector" -> path[i + 1] = "analyzer"
                [] path[i] = "analyzer" -> path[i + 1] = "quality_assessor"
                [] path[i] = "quality_assessor" ->
                      path[i + 1] \in {"data_collector", "reporter"}
                [] path[i] = "reporter" -> path[i + 1] = "memory_updater"
                [] OTHER -> FALSE
        /\ Cardinality(Entries("planner")) <= 1
        /\ Cardinality(Entries("reporter")) <= 1
        /\ Cardinality(Entries("memory_updater")) <= 1
        /\ \A i \in Entries("reporter") :
              \E j \in Entries("quality_assessor") : j < i
        /\ pc[1] = "done" =>
              /\ Cardinality(Entries("reporter")) = 1
              /\ path[Len(path)] = "memory_updater"
              /\ ret[1].final_report = oracle_calls[1][
                    CHOOSE p \in CallsOf("reporter") : TRUE].reply
              /\ Len(ret[1].memory_notes) = 1
        /\ pc[1] \in {"done", "raised"} \/ pc[1] = "start" \/ pc[1] = path[Len(path)]

\* C23: a run went back to the collector twice, reported and returned
C23_Witness ==
    /\ Researching
    /\ pc[1] = "done"
    /\ path = <<"planner", "data_collector", "analyzer", "quality_assessor",
                "data_collector", "analyzer", "quality_assessor",
                "data_collector", "analyzer", "quality_assessor",
                "reporter", "memory_updater">>
    /\ ret[1].research_plan = <<"K">>
    /\ ret[1].quality_assessment =
          [assessment_text |-> "It needs improvement.", iteration |-> 2]

\* the run has made no more than ResearchMaxIterations assessments, counted
\* each of them once, and has ended by an exception only if the oracle failed
ResearchBounded ==
    Researching /\ pc[1] # "start" =>
        /\ Cardinality(CallsOf("quality_assessor")) <= ResearchMaxIterations
        /\ state.iteration_count =
              Cardinality({p \in CallsOf("quality_assessor") :
                              IsText(oracle_calls[1][p].reply)})
        /\ state.iteration_count <= state.max_iterations
        /\ state.max_iterations = ResearchMaxIterations
        /\ pc[1] = "raised" => LastCall(1).reply = Failed
        /\ pc[1] = "done" =>
              /\ ret[1].iterations = state.iteration_count
              /\ ret[1].iterations >= 1
              /\ ret[1].iterations <= ResearchMaxIterations
              /\ Entries("reporter") # {}
              /\ Entries("memory_updater") # {}

\* C24: a run of research_stock makes at most three quality assessments,
\* iteration_count is the number of assessments made and never exceeds
\* max_iterations, and the run ends: returned, after the report and the
\* memory update, with iterations between 1 and 3, whenever every oracle
\* call was answered.
C24_ResearchBounded ==
    /\ []ResearchBounded
    /\ <>(Researching => pc[1] \in {"done", "raised"})

\* C24: every assessment asked for an improvement and the run returned
\* after three of them
C24_Witness ==
    /\ Researching
    /\ pc[1] = "done"
    /\ ret[1].iterations = ResearchMaxIterations
    /\ \A p \in CallsOf("quality_assessor") :
          _should_refine_Unbounded(
              [quality_assessment |->
                  [assessment_text |-> oracle_calls[1][p].reply]]) = "refine"

---------------------------------------------------------------------------
(* Evaluations without a score. *)

\* the text decodes to an object that has no overall_score
LacksScore(text) ==
    /\ JsonLoads(Content(text)).ok
    /\ JsonLoads(Content(text)).ty = "dict"
    /\ "overall_score" \notin DOMAIN JsonLoads(Content(text)).d

\* C31: an evaluation whose text decodes to an object without an
\* overall_score is recorded with quality_score 0; its evaluation is the
\* decoded object, not the fallback, and has no score of 6.0; the threshold
\* is not met, so the optimizer is called when an iteration remains and the
\* run returns with the threshold not met otherwise.
C31_MissingScoreIsZero ==
    \A r \in Tasks : Running =>
        \A p \in DOMAIN oracle_calls[r] :
            LET c == oracle_calls[r][p]
                rec == RecordOf(r, c.iteration)
            IN c.kind = "evaluate" /\ IsText(c.reply) /\ LacksScore(c.reply)
               => /\ rec.iteration = c.iteration + 1
                  /\ rec.quality_score = Num(0)
                  /\ ~Degraded(rec.evaluation)
                  /\ "overall_score" \notin DOMAIN rec.evaluation
                  /\ \A k \in DOMAIN JsonLoads(Content(c.reply)).d :
                        rec.evaluation[k] = JsonLoads(Content(c.reply)).d[k]
                  /\ Instance(r).min_quality_threshold > 0
                  /\ IF c.iteration < Instance(r).max_iterations - 1
                     THEN /\ p < Len(oracle_calls[r])
                          /\ oracle_calls[r][p + 1].kind = "optimize"
                          /\ ~DictGet(rec, "threshold_met", FALSE)
                     ELSE /\ pc[r] = "done"
                          /\ p = Len(oracle_calls[r])
                          /\ ~ret[r].quality_threshold_met
                          /\ ret[r].final_score = Num(0)

\* C31: the first evaluation of a run had no overall_score, the optimizer
\* answered, and the record is in the history
C31_Witness ==
    /\ Running
    /\ Len(oracle_calls[1]) >= 3
    /\ LacksScore(oracle_calls[1][1].reply)
    /\ oracle_calls[1][2].kind = "optimize"
    /\ Len(workflow_history[1]) >= 1
    /\ workflow_history[1][1].quality_score = Num(0)
    /\ workflow_history[1][1].optimization # None

---------------------------------------------------------------------------
(* Dispatch. *)

\* C32: in every process_content result with success true, the specialist
\* field of specialist_analysis is the specialist the routing decision
\* names.
C32_DispatchMatchesDecision ==
    \A i \in Tasks :
        (Routing /\ pc[i] = "done" /\ HasSuccess(ret[i], TRUE))
        => /\ ret[i].routing_decision.ty = "dict"
           /\ ret[i].specialist_analysis.specialist
                 = DictGet(ret[i].routing_decision.d, "specialist", None)

---------------------------------------------------------------------------
(* What a record holds. *)

\* the evaluation call of iteration i (counted from 0) of run r
EvaluateCall(r, i) ==
    LET calls == oracle_calls[r]
    IN calls[CHOOSE p \in DOMAIN calls :
                 calls[p].kind = "evaluate" /\ calls[p].iteration = i]

\* C33: in a returned run the artifact that record k refers to is the
\* artifact given to the evaluation call of iteration k, and the record's
\* evaluation is what that call's reply evaluates to.
C33_SnapshotIsEvaluatedArtifact ==
    \A r \in Tasks : Finished(r) =>
        \A k \in 1..Len(ret[r].workflow_history) :
            LET rec == ret[r].workflow_history[k]
                c == EvaluateCall(r, k - 1)
            IN /\ heap[r][rec.analysis] = c.artifact
               /\ rec.evaluation = evaluate_analysis(c.reply).value

---------------------------------------------------------------------------
(* The caller's dict. *)

\* the dict the caller of run r passed in, as it is now
CallersDict(r) == heap[r][1]

\* C34: the dict the caller passed to process_with_evaluation has the items
\* it had before the call, at every step of the run and after the run has
\* returned or raised; the artifact the run updates is another object.
C34_InputUnchanged ==
    \A r \in Tasks : Running =>
        /\ CallersDict(r) = AnalysisArg(r)
        /\ pc[r] # "start" => current_analysis[r] # 1
        /\ Finished(r) => ret[r].final_analysis # 1

\* C34: a run returned after a text update made in place on its artifact,
\* which had an "analysis" item like the caller's dict
C34_Witness ==
    /\ Finished(1)
    /\ "analysis" \in DOMAIN CallersDict(1)
    /\ ret[1].final_analysis = 2
    /\ heap[1][2].analysis # CallersDict(1).analysis
    /\ \E r \in Tasks : pc[r] = "raised"

---------------------------------------------------------------------------
(* The order of the news chain. *)

StageOrder == <<"ingest", "preprocess", "classify", "extract", "summarize">>

\* the parsed output of call p of the news chain has an "error" item
StageOutputFails(p) ==
    /\ IsText(oracle_calls[1][p].reply)
    /\ "error" \in DOMAIN _parse_json_output(oracle_calls[1][p].reply)

\* C35: process_news calls its stages in the order ingest, preprocess,
\* classify, extract, summarize, each at most once; the first is given the
\* raw news and each later one the parsed output of the stage before it; a
\* stage of the first four whose output does not parse or has an "error"
\* item is the last one called and the result names it as failed; a stage
\* that raises is the last one called and the result has success false,
\* nothing is raised; a result with success true comes after five answered
\* stages.
C35_ChainOrder ==
    Chaining =>
        LET calls == oracle_calls[1]
        IN /\ Len(calls) <= 5
           /\ pc[1] # "raised"
           /\ \A p \in DOMAIN calls :
                 /\ calls[p].kind = StageOrder[p]
                 /\ p = 1 => calls[p].artifact = inputs[1]
                 /\ p > 1 =>
                       /\ IsText(calls[p - 1].reply)
                       /\ ~StageOutputFails(p - 1)
                       /\ calls[p].artifact = _parse_json_output(calls[p - 1].reply)
                 /\ (p <= 4 /\ StageOutputFails(p)) =>
                       /\ p = Len(calls)
                       /\ pc[1] = "done"
                       /\ ret[1] = [error |-> Str(StageError(StageOrder[p])),
                                    details |-> _parse_json_output(calls[p].reply)]
                 /\ calls[p].reply = Failed =>
                       /\ p = Len(calls)
                       /\ pc[1] = "done"
                       /\ HasSuccess(ret[1], FALSE)
           /\ (pc[1] = "done" /\ HasSuccess(ret[1], TRUE)) =>
                 /\ Len(calls) = 5
                 /\ \A p \in DOMAIN calls : IsText(calls[p].reply)

\* C35: a run of process_news returned with success true after its five
\* stages, the preprocessing having been given the ingestion's parsed output
C35_Witness ==
    /\ Chaining
    /\ pc[1] = "done"
    /\ HasSuccess(ret[1], TRUE)
    /\ Len(oracle_calls[1]) = 5
    /\ oracle_calls[1][2].artifact = _parse_json_output(oracle_calls[1][1].reply)
    /\ oracle_calls[1][1].reply = "Here you go: {\"valid_articles\": []}"

---------------------------------------------------------------------------
(* The batch limit of the routing endpoint. *)

\* C36: a batch_route_content request with more than 20 items ends with
\* status 400 and the detail "Maximum 20 content items allowed per batch
\* request", no oracle call having been started; a request with at most 20
\* items, served by a constructed workflow, has an entry for every item and
\* reports processed_count equal to the number of items.
C36_BatchSizeLimit ==
    (BatchRouting /\ pc[1] # "start" /\ routing_workflow # "None") =>
        IF Len(inputs) > BatchLimit
        THEN /\ pc[1] = "raised"
             /\ dispatched.calls_started = 0
             /\ ret[1] = HTTPException(400,
                   Str("Maximum 20 content items allowed per batch request"))
        ELSE /\ pc[1] # "raised"
             /\ pc[1] = "done" =>
                   /\ ret[1].processed_count = Len(inputs)
                   /\ ret[1].results.success_true + ret[1].results.success_false
                         = Len(inputs)

====
